---- MODULE Spec2Model ----
(***************************************************************************)
(* Landscaping client tracker: the SQLite store of src/database.py and the *)
(* analytics computed over it (client statistics, batch statistics,        *)
(* duration anomalies).                                                    *)
(*                                                                         *)
(* Numbers.  The code computes in binary floating point.  The model        *)
(* computes in exact rationals <<n, d>> (d > 0, lowest terms), so a value  *)
(* such as est_yearly_cost / 12 keeps its full precision and round() is    *)
(* decided on the exact value (ties to even, as Python's round).  The      *)
(* representation error of a float is not modelled.                        *)
(***************************************************************************)
EXTENDS Integers, Sequences, FiniteSets, TLC

VARIABLES
    clients,          \* table clients:          id -> row
    materials,        \* table materials:        id -> row
    client_materials, \* table client_materials: id -> row
    visits,           \* table visits:           id -> row
    visit_materials,  \* table visit_materials:  id -> row
    settings,         \* table settings:         key -> value
    sqlite_sequence,  \* AUTOINCREMENT counters: table name -> last id given
    returned,         \* what the last analytics call returned to its caller
    all_client_stats,       \* LandscapingApp.all_client_stats, the dashboard's cache
    todo_durations,         \* the anomalies listed under Unusual Durations on the To-Do tab
    handler,                \* the window's event handler that ran last, and the calls it has yet to make
    pending_mobile_uploads, \* LandscapingApp.pending_mobile_uploads
    uploads,                \* process_pending_mobile_uploads' local list, between copy() and clear()
    after_calls,            \* process_pending_mobile_uploads callbacks scheduled by after(), not yet run
    scan_pipeline,          \* the lists of file paths handed to the scan pipeline, in order
    now,                    \* the clock, in seconds
    mobile_requests,        \* MobileServer.upload requests being served: thread -> position and locals
    temp_dir,               \* the files of MobileServer.temp_dir: path -> image
    upload_count,           \* UploadServer.upload_count
    upload_requests,        \* UploadServer.upload requests being served: thread -> position and locals
    upload_callback_calls   \* the (filename, image) pairs UploadServer gave to upload_callback, in order

tables == <<clients, materials, client_materials, visits, visit_materials,
            settings, sqlite_sequence>>
\* the window's state
gui == <<all_client_stats, todo_durations, handler>>
\* the upload servers' state and the window's upload queue
server == <<pending_mobile_uploads, uploads, after_calls, scan_pipeline, now,
            mobile_requests, temp_dir, upload_count, upload_requests, upload_callback_calls>>
\* everything outside the database
app == <<gui, server>>
vars == <<clients, materials, client_materials, visits, visit_materials,
          settings, sqlite_sequence, returned, app>>

----------------------------------------------------------------------------
(* Exact rational arithmetic.                                              *)

Abs(n) == IF n < 0 THEN -n ELSE n

RECURSIVE GCD(_, _)
GCD(a, b) == IF b = 0 THEN a ELSE GCD(b, a % b)

\* n / d in lowest terms, d > 0
Rat(n, d) ==
    LET s == IF d < 0 THEN -1 ELSE 1
        g == GCD(Abs(n), Abs(d))
    IN  IF n = 0 THEN <<0, 1>> ELSE <<(s * n) \div g, (s * d) \div g>>

Whole(n) == <<n, 1>>
Zero == <<0, 1>>

\* the operations cancel common factors before they multiply, which keeps the
\* intermediate products small
RAdd(a, b) ==
    LET g == GCD(a[2], b[2])
    IN  Rat(a[1] * (b[2] \div g) + b[1] * (a[2] \div g), (a[2] \div g) * b[2])
RSub(a, b) == RAdd(a, <<-b[1], b[2]>>)
RMul(a, b) ==
    LET g == GCD(Abs(a[1]), b[2])
        h == GCD(Abs(b[1]), a[2])
    IN  Rat((a[1] \div g) * (b[1] \div h), (a[2] \div h) * (b[2] \div g))
\* a / b, b # 0
RDiv(a, b) == RMul(a, IF b[1] < 0 THEN <<-b[2], -b[1]>> ELSE <<b[2], b[1]>>)
RLe(a, b) ==
    LET g == GCD(a[2], b[2]) IN a[1] * (b[2] \div g) <= b[1] * (a[2] \div g)
RLt(a, b) ==
    LET g == GCD(a[2], b[2]) IN a[1] * (b[2] \div g) <  b[1] * (a[2] \div g)
RGe(a, b)  == RLe(b, a)
RGt(a, b)  == RLt(b, a)

Pow10(k) == IF k = 0 THEN 1 ELSE IF k = 1 THEN 10 ELSE 100

\* the sum of f[i] over i in S
RECURSIVE RSum(_, _)
RSum(f, S) ==
    IF S = {} THEN Zero
    ELSE LET i == CHOOSE j \in S : TRUE
         IN  RAdd(f[i], RSum(f, S \ {i}))

\* the least and the greatest of a non-empty set of rationals
RMin(S) == CHOOSE x \in S : \A y \in S : RLe(x, y)
RMax(S) == CHOOSE x \in S : \A y \in S : RLe(y, x)

----------------------------------------------------------------------------
(* The store.  Columns no modelled query reads (email, phone, address,     *)
(* notes, bill_to, unit, description, is_global, created_at, start_time,   *)
(* end_time, the material's name) are left out.  A client's name is its    *)
(* rank in the string order, which is all ORDER BY name uses.  visit_date  *)
(* is kept as its year, which is all strftime('%Y', visit_date) reads.     *)

\* Python's None / SQL NULL
None == <<>>

\* get_client_statistics' result for a client that does not exist: {}
EmptyDict == [client_id |-> None]

\* str(rate) as stored in settings.value, and float(value) reading it back:
\* Python's float(str(x)) is x for every finite float x
str(x) == [text |-> x]
float(s) == s.text

\* datetime.now().year
current_year == 2026

Range(f) == {f[i] : i \in DOMAIN f}

\* f without the keys in S
Without(f, S) == [i \in DOMAIN f \ S |-> f[i]]

\* INSERT: the row under the next AUTOINCREMENT id
Insert(table, id, row) == [i \in DOMAIN table \cup {id} |-> IF i = id THEN row ELSE table[i]]

\* UPDATE t SET f = v, ... WHERE id = ?: the fields of kwargs that are allowed
\* and present are overwritten; an id that is not there updates nothing
Update(table, id, allowed_fields, kwargs) ==
    [i \in DOMAIN table |->
        IF i # id THEN table[i]
        ELSE [f \in DOMAIN table[i] |->
                IF f \in allowed_fields /\ f \in DOMAIN kwargs
                THEN kwargs[f] ELSE table[i][f]]]

NextId(t) == sqlite_sequence[t] + 1
Bump(t) == [sqlite_sequence EXCEPT ![t] = @ + 1]

\* LandscapingApp.__init__ on a new database file: Database.__init__ (connect(),
\* create_tables()), the servers not yet serving, the tabs built over no clients
Init ==
    /\ clients = <<>>
    /\ materials = <<>>
    /\ client_materials = <<>>
    /\ visits = <<>>
    /\ visit_materials = <<>>
    /\ settings = [hourly_rate |-> str(Whole(25))]
    /\ sqlite_sequence = [clients |-> 0, materials |-> 0, client_materials |-> 0,
                          visits |-> 0, visit_materials |-> 0]
    /\ returned = [call |-> "", value |-> None]
    /\ all_client_stats = [assigned |-> FALSE, stats_list |-> <<>>]
    /\ todo_durations = <<>>
    /\ handler = [name |-> "__init__", arg |-> None, calls |-> <<>>]
    /\ pending_mobile_uploads = <<>>
    /\ uploads = <<>>
    /\ after_calls = 0
    /\ scan_pipeline = <<>>
    /\ now = 0
    /\ mobile_requests = <<>>
    /\ temp_dir = <<>>
    /\ upload_count = 0
    /\ upload_requests = <<>>
    /\ upload_callback_calls = <<>>

(* ---- client operations ---- *)

add_client(name, monthly_charge) ==
    /\ clients' = Insert(clients, NextId("clients"),
                         [name |-> name, monthly_charge |-> monthly_charge, is_active |-> 1])
    /\ sqlite_sequence' = Bump("clients")
    /\ UNCHANGED <<materials, client_materials, visits, visit_materials, settings, returned>>

update_client(client_id, kwargs) ==
    /\ clients' = Update(clients, client_id, {"name", "monthly_charge"}, kwargs)
    /\ UNCHANGED <<materials, client_materials, visits, visit_materials, settings,
                   sqlite_sequence, returned>>

\* a deactivation that also drops the client's configured materials
deactivate_client_DroppingMaterials(client_id) ==
    /\ clients' = [i \in DOMAIN clients |->
                     IF i = client_id THEN [clients[i] EXCEPT !.is_active = 0] ELSE clients[i]]
    /\ client_materials' = Without(client_materials,
           {cm \in DOMAIN client_materials : client_materials[cm].client_id = client_id})
    /\ UNCHANGED <<materials, visits, visit_materials, settings, sqlite_sequence, returned>>

deactivate_client(client_id) ==
    /\ clients' = [i \in DOMAIN clients |->
                     IF i = client_id THEN [clients[i] EXCEPT !.is_active = 0] ELSE clients[i]]
    /\ UNCHANGED <<materials, client_materials, visits, visit_materials, settings,
                   sqlite_sequence, returned>>

activate_client(client_id) ==
    /\ clients' = [i \in DOMAIN clients |->
                     IF i = client_id THEN [clients[i] EXCEPT !.is_active = 1] ELSE clients[i]]
    /\ UNCHANGED <<materials, client_materials, visits, visit_materials, settings,
                   sqlite_sequence, returned>>

\* DELETE FROM clients with the foreign keys not enforced: only the client's row goes
delete_client_NoCascade(client_id) ==
    /\ clients' = Without(clients, {client_id})
    /\ UNCHANGED <<materials, client_materials, visits, visit_materials, settings,
                   sqlite_sequence, returned>>

\* DELETE FROM clients, with PRAGMA foreign_keys = ON: the client's visits,
\* their visit_materials and the client's client_materials go with it
delete_client(client_id) ==
    LET gone_visits == {v \in DOMAIN visits : visits[v].client_id = client_id}
    IN  /\ clients' = Without(clients, {client_id})
        /\ visits' = Without(visits, gone_visits)
        /\ visit_materials' = Without(visit_materials,
               {vm \in DOMAIN visit_materials : visit_materials[vm].visit_id \in gone_visits})
        /\ client_materials' = Without(client_materials,
               {cm \in DOMAIN client_materials : client_materials[cm].client_id = client_id})
        /\ UNCHANGED <<materials, settings, sqlite_sequence, returned>>

(* ---- material operations ---- *)

add_material(default_cost, material_type) ==
    /\ materials' = Insert(materials, NextId("materials"),
                           [default_cost |-> default_cost, material_type |-> material_type])
    /\ sqlite_sequence' = Bump("materials")
    /\ UNCHANGED <<clients, client_materials, visits, visit_materials, settings, returned>>

update_material(material_id, kwargs) ==
    /\ materials' = Update(materials, material_id, {"default_cost", "material_type"}, kwargs)
    /\ UNCHANGED <<clients, client_materials, visits, visit_materials, settings,
                   sqlite_sequence, returned>>

delete_material(material_id) ==
    /\ materials' = Without(materials, {material_id})
    /\ client_materials' = Without(client_materials,
           {cm \in DOMAIN client_materials : client_materials[cm].material_id = material_id})
    /\ visit_materials' = Without(visit_materials,
           {vm \in DOMAIN visit_materials : visit_materials[vm].material_id = material_id})
    /\ UNCHANGED <<clients, visits, settings, sqlite_sequence, returned>>

(* ---- client material operations ---- *)

\* INSERT OR REPLACE: a row with the same (client_id, material_id) is deleted
\* and the new row, is_enabled = 1 by default, takes a fresh id.  A client or
\* material that does not exist fails the foreign key: IntegrityError, no change.
add_client_material(client_id, material_id, custom_cost, multiplier) ==
    /\ client_id \in DOMAIN clients
    /\ material_id \in DOMAIN materials
    /\ LET old == {cm \in DOMAIN client_materials :
                      /\ client_materials[cm].client_id = client_id
                      /\ client_materials[cm].material_id = material_id}
       IN  client_materials' =
               Insert(Without(client_materials, old), NextId("client_materials"),
                      [client_id |-> client_id, material_id |-> material_id,
                       custom_cost |-> custom_cost, multiplier |-> multiplier,
                       is_enabled |-> 1])
    /\ sqlite_sequence' = Bump("client_materials")
    /\ UNCHANGED <<clients, materials, visits, visit_materials, settings, returned>>

remove_client_material(client_id, material_id) ==
    /\ client_materials' = Without(client_materials,
           {cm \in DOMAIN client_materials :
               /\ client_materials[cm].client_id = client_id
               /\ client_materials[cm].material_id = material_id})
    /\ UNCHANGED <<clients, materials, visits, visit_materials, settings,
                   sqlite_sequence, returned>>

(* ---- visit operations ---- *)

add_visit(client_id, visit_date, duration_minutes, needs_review) ==
    /\ client_id \in DOMAIN clients
    /\ visits' = Insert(visits, NextId("visits"),
                        [client_id |-> client_id, visit_date |-> visit_date,
                         duration_minutes |-> duration_minutes,
                         needs_review |-> needs_review])
    /\ sqlite_sequence' = Bump("visits")
    /\ UNCHANGED <<clients, materials, client_materials, visit_materials, settings, returned>>

update_visit(visit_id, kwargs) ==
    /\ visits' = Update(visits, visit_id,
                        {"visit_date", "duration_minutes", "needs_review"}, kwargs)
    /\ UNCHANGED <<clients, materials, client_materials, visit_materials, settings,
                   sqlite_sequence, returned>>

mark_visit_reviewed(visit_id) ==
    /\ visits' = [i \in DOMAIN visits |->
                    IF i = visit_id THEN [visits[i] EXCEPT !.needs_review = 0] ELSE visits[i]]
    /\ UNCHANGED <<clients, materials, client_materials, visit_materials, settings,
                   sqlite_sequence, returned>>

delete_visit(visit_id) ==
    /\ visits' = Without(visits, {visit_id})
    /\ visit_materials' = Without(visit_materials,
           {vm \in DOMAIN visit_materials : visit_materials[vm].visit_id = visit_id})
    /\ UNCHANGED <<clients, materials, client_materials, settings, sqlite_sequence, returned>>

(* ---- visit material operations ---- *)

add_visit_material(visit_id, material_id, quantity, cost_at_time) ==
    /\ visit_id \in DOMAIN visits
    /\ material_id \in DOMAIN materials
    /\ visit_materials' = Insert(visit_materials, NextId("visit_materials"),
                                 [visit_id |-> visit_id, material_id |-> material_id,
                                  quantity |-> quantity, cost_at_time |-> cost_at_time])
    /\ sqlite_sequence' = Bump("visit_materials")
    /\ UNCHANGED <<clients, materials, client_materials, visits, settings, returned>>

delete_visit_material(visit_material_id) ==
    /\ visit_materials' = Without(visit_materials, {visit_material_id})
    /\ UNCHANGED <<clients, materials, client_materials, visits, settings,
                   sqlite_sequence, returned>>

(* ---- settings ---- *)

get_setting(key, default) == IF key \in DOMAIN settings THEN settings[key] ELSE default

set_setting(key, value) ==
    /\ settings' = [k \in DOMAIN settings \cup {key} |-> IF k = key THEN value ELSE settings[k]]
    /\ UNCHANGED <<clients, materials, client_materials, visits, visit_materials,
                   sqlite_sequence, returned>>

\* the rate read as the default whatever the settings table holds
get_hourly_rate_DefaultOnly == float(str(Whole(25)))

get_hourly_rate == float(get_setting("hourly_rate", str(Whole(25))))

set_hourly_rate(rate) == set_setting("hourly_rate", str(rate))

----------------------------------------------------------------------------
(* Analytics.                                                              *)

\* Python's round(x, ndigits) on the exact value: the nearest multiple of
\* 10^-ndigits, a tie going to the even one
round(x, ndigits) ==
    LET s   == Pow10(ndigits)
        num == x[1] * s
        q   == num \div x[2]
        r   == num - q * x[2]
        k   == IF 2 * r < x[2] THEN q
               ELSE IF 2 * r > x[2] THEN q + 1
               ELSE IF q % 2 = 0 THEN q ELSE q + 1
    IN  Rat(k, s)

\* get_client answering an id that is not there with a blank row instead of None
get_client_BlankRow(client_id) ==
    IF client_id \in DOMAIN clients THEN clients[client_id]
    ELSE [name |-> 1, monthly_charge |-> Zero, is_active |-> 0]

\* SELECT * FROM clients WHERE id = ?; dict(row) if row else None
get_client(client_id) == IF client_id \in DOMAIN clients THEN clients[client_id] ELSE None

\* COALESCE(cm.custom_cost, m.default_cost) * cm.multiplier
EffectiveTotal(cm) ==
    RMul(IF client_materials[cm].custom_cost # None
         THEN client_materials[cm].custom_cost
         ELSE materials[client_materials[cm].material_id].default_cost,
         client_materials[cm].multiplier)

\* the configured cost with what the client's visits logged added to it
ConfiguredCost_PlusLogged(client_id, material_type) ==
    LET rows == {cm \in DOMAIN client_materials :
                    /\ client_materials[cm].material_id \in DOMAIN materials
                    /\ client_materials[cm].client_id = client_id
                    /\ client_materials[cm].is_enabled = 1
                    /\ materials[client_materials[cm].material_id].material_type = material_type}
        logged == {vm \in DOMAIN visit_materials :
                    /\ visit_materials[vm].visit_id \in DOMAIN visits
                    /\ visits[visit_materials[vm].visit_id].client_id = client_id
                    /\ visit_materials[vm].material_id \in DOMAIN materials
                    /\ materials[visit_materials[vm].material_id].material_type = material_type}
    IN  RAdd(RSum([cm \in rows |-> EffectiveTotal(cm)], rows),
             RSum([vm \in logged |-> RMul(visit_materials[vm].quantity,
                                          visit_materials[vm].cost_at_time)], logged))

\* client_materials cm JOIN materials m ON cm.material_id = m.id
\* WHERE cm.client_id = ? AND cm.is_enabled = 1 AND m.material_type = ?
\* -> COALESCE(SUM(COALESCE(cm.custom_cost, m.default_cost) * cm.multiplier), 0)
ConfiguredCost(client_id, material_type) ==
    LET rows == {cm \in DOMAIN client_materials :
                    /\ client_materials[cm].material_id \in DOMAIN materials
                    /\ client_materials[cm].client_id = client_id
                    /\ client_materials[cm].is_enabled = 1
                    /\ materials[client_materials[cm].material_id].material_type = material_type}
    IN  RSum([cm \in rows |-> EffectiveTotal(cm)], rows)

\* a logged line priced at the catalog's current default_cost
LineCost_CatalogPrice(vm) ==
    RMul(visit_materials[vm].quantity, materials[visit_materials[vm].material_id].default_cost)

\* vm.quantity * vm.cost_at_time
LineCost(vm) == RMul(visit_materials[vm].quantity, visit_materials[vm].cost_at_time)

\* visits v LEFT JOIN visit_materials vm ON v.id = vm.visit_id
\*          LEFT JOIN materials m ON vm.material_id = m.id
\* WHERE v.client_id = ? AND m.material_type = ?
\* -> COALESCE(SUM(vm.quantity * vm.cost_at_time), 0)
\* (the WHERE on m drops the rows the LEFT JOINs padded with NULLs)
VisitCost(client_id, material_type) ==
    LET rows == {vm \in DOMAIN visit_materials :
                    /\ visit_materials[vm].visit_id \in DOMAIN visits
                    /\ visits[visit_materials[vm].visit_id].client_id = client_id
                    /\ visit_materials[vm].material_id \in DOMAIN materials
                    /\ materials[visit_materials[vm].material_id].material_type = material_type}
    IN  RSum([vm \in rows |-> LineCost(vm)], rows)

\* the time statistics with SUM(d) where AVG(d) is selected
TimeStats_SumAsAvg(client_id) ==
    LET rows == {v \in DOMAIN visits : visits[v].client_id = client_id}
        d    == [v \in rows |-> visits[v].duration_minutes]
    IN  IF rows = {}
        THEN [avg_duration |-> Zero, min_duration |-> Zero,
              max_duration |-> Zero, total_duration |-> Zero]
        ELSE [avg_duration   |-> RSum(d, rows),
              min_duration   |-> RMin(Range(d)),
              max_duration   |-> RMax(Range(d)),
              total_duration |-> RSum(d, rows)]

\* SELECT COALESCE(AVG(d), 0), COALESCE(MIN(d), 0), COALESCE(MAX(d), 0),
\* COALESCE(SUM(d), 0) FROM visits WHERE client_id = ?   (d = duration_minutes)
TimeStats(client_id) ==
    LET rows == {v \in DOMAIN visits : visits[v].client_id = client_id}
        d    == [v \in rows |-> visits[v].duration_minutes]
    IN  IF rows = {}
        THEN [avg_duration |-> Zero, min_duration |-> Zero,
              max_duration |-> Zero, total_duration |-> Zero]
        ELSE [avg_duration   |-> RDiv(RSum(d, rows), Whole(Cardinality(rows))),
              min_duration   |-> RMin(Range(d)),
              max_duration   |-> RMax(Range(d)),
              total_duration |-> RSum(d, rows)]

\* the dict with the material total reported as the combined total
StatsDict_MaterialsAsTotal(u) ==
    [client_id |-> u.client_id,
     client_name |-> u.client_name,
     visit_count |-> u.visit_count,
     visits_this_year |-> u.visits_this_year,
     total_material_cost |-> round(u.total_material_cost, 2),
     total_service_cost |-> round(u.total_service_cost, 2),
     total_materials_services_cost |-> round(u.total_material_cost, 2),
     configured_materials_cost_yearly |-> round(u.configured_materials_cost_yearly, 2),
     configured_services_cost_yearly |-> round(u.configured_services_cost_yearly, 2),
     projected_yearly_labor_cost |-> round(u.projected_yearly_labor_cost, 2),
     avg_time_per_visit |-> round(u.avg_time_per_visit, 1),
     min_time_per_visit |-> round(u.min_time_per_visit, 1),
     max_time_per_visit |-> round(u.max_time_per_visit, 1),
     total_labor_cost |-> round(u.total_labor_cost, 2),
     avg_cost_per_visit |-> round(u.avg_cost_per_visit, 2),
     est_yearly_cost |-> round(u.est_yearly_cost, 2),
     proposed_monthly_rate |-> round(u.proposed_monthly_rate, 2),
     actual_monthly_charge |-> round(u.actual_monthly_charge, 2),
     monthly_profit_loss |-> round(u.profit_loss, 2),
     is_profitable |-> u.is_profitable,
     hourly_rate |-> round(u.hourly_rate, 2)]

\* the dict both statistics functions return, rounded from the unrounded
\* values u at the point the dict is built
StatsDict(u) ==
    [client_id |-> u.client_id,
     client_name |-> u.client_name,
     visit_count |-> u.visit_count,
     visits_this_year |-> u.visits_this_year,
     total_material_cost |-> round(u.total_material_cost, 2),
     total_service_cost |-> round(u.total_service_cost, 2),
     total_materials_services_cost |-> round(u.total_materials_services_cost, 2),
     configured_materials_cost_yearly |-> round(u.configured_materials_cost_yearly, 2),
     configured_services_cost_yearly |-> round(u.configured_services_cost_yearly, 2),
     projected_yearly_labor_cost |-> round(u.projected_yearly_labor_cost, 2),
     avg_time_per_visit |-> round(u.avg_time_per_visit, 1),
     min_time_per_visit |-> round(u.min_time_per_visit, 1),
     max_time_per_visit |-> round(u.max_time_per_visit, 1),
     total_labor_cost |-> round(u.total_labor_cost, 2),
     avg_cost_per_visit |-> round(u.avg_cost_per_visit, 2),
     est_yearly_cost |-> round(u.est_yearly_cost, 2),
     proposed_monthly_rate |-> round(u.proposed_monthly_rate, 2),
     actual_monthly_charge |-> round(u.actual_monthly_charge, 2),
     monthly_profit_loss |-> round(u.profit_loss, 2),
     is_profitable |-> u.is_profitable,
     hourly_rate |-> round(u.hourly_rate, 2)]

\* the labor of one crew member instead of two
LaborCost_OneCrew(minutes, hourly_rate) == RMul(RDiv(minutes, Whole(60)), hourly_rate)

\* (minutes / 60) * 2 * hourly_rate
LaborCost(minutes, hourly_rate) == RMul(RMul(RDiv(minutes, Whole(60)), Whole(2)), hourly_rate)

\* the average without its zero-visit guard: a count of 0 taken as 1
AvgCostPerVisit_CountAtLeastOne(total_cost, visit_count) ==
    RDiv(total_cost, Whole(IF visit_count > 0 THEN visit_count ELSE 1))

\* total_cost / visit_count if visit_count > 0 else 0
AvgCostPerVisit(total_cost, visit_count) ==
    IF visit_count > 0 THEN RDiv(total_cost, Whole(visit_count)) ELSE Zero

get_client_statistics(client_id) ==
    LET client == get_client(client_id)
        hourly_rate == get_hourly_rate
        visit_count == Cardinality({v \in DOMAIN visits : visits[v].client_id = client_id})
        visits_this_year ==
            Cardinality({v \in DOMAIN visits : /\ visits[v].client_id = client_id
                                               /\ visits[v].visit_date = current_year})
        configured_materials_cost_yearly == ConfiguredCost(client_id, "material")
        configured_services_cost_yearly == ConfiguredCost(client_id, "service")
        visit_material_cost == VisitCost(client_id, "material")
        visit_service_cost == VisitCost(client_id, "service")
        total_material_cost == RAdd(configured_materials_cost_yearly, visit_material_cost)
        total_service_cost == RAdd(configured_services_cost_yearly, visit_service_cost)
        total_materials_services_cost == RAdd(total_material_cost, total_service_cost)
        time_stats == TimeStats(client_id)
        total_labor_cost == LaborCost(time_stats.total_duration, hourly_rate)
        total_cost == RAdd(total_labor_cost, total_materials_services_cost)
        avg_cost_per_visit == AvgCostPerVisit(total_cost, visit_count)
        avg_labor_cost_per_visit == LaborCost(time_stats.avg_duration, hourly_rate)
        projected_yearly_labor_cost == RMul(avg_labor_cost_per_visit, Whole(52))
        est_yearly_cost == RAdd(RAdd(projected_yearly_labor_cost,
                                     configured_materials_cost_yearly),
                                configured_services_cost_yearly)
        proposed_monthly_rate == RDiv(est_yearly_cost, Whole(12))
        actual_monthly_charge == client.monthly_charge
        profit_loss == RSub(actual_monthly_charge, proposed_monthly_rate)
        is_profitable == RGe(profit_loss, Zero)
    IN  IF client = None THEN EmptyDict
        ELSE StatsDict(
               [client_id |-> client_id,
                client_name |-> client.name,
                visit_count |-> visit_count,
                visits_this_year |-> visits_this_year,
                total_material_cost |-> total_material_cost,
                total_service_cost |-> total_service_cost,
                total_materials_services_cost |-> total_materials_services_cost,
                configured_materials_cost_yearly |-> configured_materials_cost_yearly,
                configured_services_cost_yearly |-> configured_services_cost_yearly,
                projected_yearly_labor_cost |-> projected_yearly_labor_cost,
                avg_time_per_visit |-> time_stats.avg_duration,
                min_time_per_visit |-> time_stats.min_duration,
                max_time_per_visit |-> time_stats.max_duration,
                total_labor_cost |-> total_labor_cost,
                avg_cost_per_visit |-> avg_cost_per_visit,
                est_yearly_cost |-> est_yearly_cost,
                proposed_monthly_rate |-> proposed_monthly_rate,
                actual_monthly_charge |-> actual_monthly_charge,
                profit_loss |-> profit_loss,
                is_profitable |-> is_profitable,
                hourly_rate |-> hourly_rate])

\* the ids in S as a list, ORDER BY name (clients of equal name in rowid order,
\* the order SQLite's scan feeds its sorter)
RECURSIVE OrderByName(_)
OrderByName(S) ==
    IF S = {} THEN <<>>
    ELSE LET first == CHOOSE c \in S : \A d \in S :
                          \/ clients[c].name < clients[d].name
                          \/ clients[c].name = clients[d].name /\ c <= d
         IN  <<first>> \o OrderByName(S \ {first})

(* The CTEs of get_all_client_statistics.  A GROUP BY client_id yields a   *)
(* row only for a client_id that has at least one row to group.            *)

visit_stats ==
    LET keys == {visits[v].client_id : v \in DOMAIN visits}
    IN  [c \in keys |->
           LET rows == {v \in DOMAIN visits : visits[v].client_id = c}
               d    == [v \in rows |-> visits[v].duration_minutes]
           IN  [visit_count |-> Cardinality(rows),
                visits_this_year |->
                    Cardinality({v \in rows : visits[v].visit_date = current_year}),
                avg_duration |-> RDiv(RSum(d, rows), Whole(Cardinality(rows))),
                min_duration |-> RMin(Range(d)),
                max_duration |-> RMax(Range(d)),
                total_duration |-> RSum(d, rows)]]

\* the CTEs configured_materials ('material') and configured_services ('service')
configured(material_type) ==
    LET joined == {cm \in DOMAIN client_materials :
                      /\ client_materials[cm].material_id \in DOMAIN materials
                      /\ client_materials[cm].is_enabled = 1
                      /\ materials[client_materials[cm].material_id].material_type
                             = material_type}
        keys == {client_materials[cm].client_id : cm \in joined}
    IN  [c \in keys |->
           LET rows == {cm \in joined : client_materials[cm].client_id = c}
           IN  RSum([cm \in rows |-> EffectiveTotal(cm)], rows)]

\* the CTEs visit_materials_costs ('material') and visit_services_costs ('service')
visit_costs(material_type) ==
    LET joined == {vm \in DOMAIN visit_materials :
                      /\ visit_materials[vm].visit_id \in DOMAIN visits
                      /\ visit_materials[vm].material_id \in DOMAIN materials
                      /\ materials[visit_materials[vm].material_id].material_type
                             = material_type}
        keys == {visits[visit_materials[vm].visit_id].client_id : vm \in joined}
    IN  [c \in keys |->
           LET rows == {vm \in joined : visits[visit_materials[vm].visit_id].client_id = c}
           IN  RSum([vm \in rows |-> LineCost(vm)], rows)]

\* c LEFT JOIN cte ON c.id = cte.client_id; COALESCE(cte.column, 0)
Coalesce(cte, c, zero) == IF c \in DOMAIN cte THEN cte[c] ELSE zero

\* visit_count = row['visit_count'] if row['visit_count'] > 0 else 1
\* avg_cost_per_visit = total_cost / visit_count
BatchAvgCostPerVisit(total_cost, row_visit_count) ==
    LET visit_count == IF row_visit_count > 0 THEN row_visit_count ELSE 1
    IN  RDiv(total_cost, Whole(visit_count))

\* SELECT * FROM clients [WHERE is_active = 1] ORDER BY name: the client ids, in order
get_all_clients(active_only) ==
    OrderByName({c \in DOMAIN clients : ~active_only \/ clients[c].is_active = 1})

\* the selection with visit_stats joined by an inner JOIN: clients with a visit only
Selected_WithVisitsOnly(active_only) ==
    {c \in DOMAIN clients : /\ clients[c].is_active = (IF active_only THEN 1 ELSE 0)
                            /\ \E v \in DOMAIN visits : visits[v].client_id = c}

\* WHERE c.is_active = ?   with   1 if active_only else 0
Selected(active_only) ==
    {c \in DOMAIN clients : clients[c].is_active = (IF active_only THEN 1 ELSE 0)}

\* one pass of the loop over cursor.fetchall(): the dict built from the row of client c
BatchRecord(c) ==
    LET hourly_rate == get_hourly_rate
        vs == Coalesce(visit_stats, c,
                       [visit_count |-> 0, visits_this_year |-> 0, avg_duration |-> Zero,
                        min_duration |-> Zero, max_duration |-> Zero,
                        total_duration |-> Zero])
        row == [client_id |-> c,
                client_name |-> clients[c].name,
                actual_monthly_charge |-> clients[c].monthly_charge,
                visit_count |-> vs.visit_count,
                visits_this_year |-> vs.visits_this_year,
                avg_duration |-> vs.avg_duration,
                min_duration |-> vs.min_duration,
                max_duration |-> vs.max_duration,
                total_duration |-> vs.total_duration,
                configured_materials_cost_yearly |-> Coalesce(configured("material"), c, Zero),
                configured_services_yearly |-> Coalesce(configured("service"), c, Zero),
                visit_material_cost |-> Coalesce(visit_costs("material"), c, Zero),
                visit_service_cost |-> Coalesce(visit_costs("service"), c, Zero)]
        total_material_cost == RAdd(row.configured_materials_cost_yearly, row.visit_material_cost)
        total_service_cost == RAdd(row.configured_services_yearly, row.visit_service_cost)
        total_materials_services_cost == RAdd(total_material_cost, total_service_cost)
        total_labor_cost == LaborCost(row.total_duration, hourly_rate)
        total_cost == RAdd(total_labor_cost, total_materials_services_cost)
        avg_cost_per_visit == BatchAvgCostPerVisit(total_cost, row.visit_count)
        avg_labor_cost_per_visit == LaborCost(row.avg_duration, hourly_rate)
        projected_yearly_labor_cost == RMul(avg_labor_cost_per_visit, Whole(52))
        est_yearly_cost == RAdd(RAdd(projected_yearly_labor_cost,
                                     row.configured_materials_cost_yearly),
                                row.configured_services_yearly)
        proposed_monthly_rate == RDiv(est_yearly_cost, Whole(12))
        profit_loss == RSub(row.actual_monthly_charge, proposed_monthly_rate)
        is_profitable == RGe(profit_loss, Zero)
    IN  StatsDict(
          [client_id |-> row.client_id,
           client_name |-> row.client_name,
           visit_count |-> row.visit_count,
           visits_this_year |-> row.visits_this_year,
           total_material_cost |-> total_material_cost,
           total_service_cost |-> total_service_cost,
           total_materials_services_cost |-> total_materials_services_cost,
           configured_materials_cost_yearly |-> row.configured_materials_cost_yearly,
           configured_services_cost_yearly |-> row.configured_services_yearly,
           projected_yearly_labor_cost |-> projected_yearly_labor_cost,
           avg_time_per_visit |-> row.avg_duration,
           min_time_per_visit |-> row.min_duration,
           max_time_per_visit |-> row.max_duration,
           total_labor_cost |-> total_labor_cost,
           avg_cost_per_visit |-> avg_cost_per_visit,
           est_yearly_cost |-> est_yearly_cost,
           proposed_monthly_rate |-> proposed_monthly_rate,
           actual_monthly_charge |-> row.actual_monthly_charge,
           profit_loss |-> profit_loss,
           is_profitable |-> is_profitable,
           hourly_rate |-> hourly_rate])

get_all_client_statistics(active_only) ==
    LET order == OrderByName(Selected(active_only))
    IN  [k \in 1..Len(order) |-> BatchRecord(order[k])]

\* client_stats without its HAVING clause: a group for every client with a visit
client_stats_NoHaving ==
    LET keys == {visits[v].client_id : v \in DOMAIN visits}
    IN  [c \in keys |->
           LET rows == {v \in DOMAIN visits : visits[v].client_id = c}
               d    == [v \in rows |-> visits[v].duration_minutes]
           IN  [avg_duration |-> RDiv(RSum(d, rows), Whole(Cardinality(rows))),
                total_visits |-> Cardinality(rows)]]

\* client_stats with HAVING total_visits >= 3
client_stats_AtLeastThree ==
    LET keys == {c \in {visits[v].client_id : v \in DOMAIN visits} :
                    Cardinality({v \in DOMAIN visits : visits[v].client_id = c}) >= 3}
    IN  [c \in keys |->
           LET rows == {v \in DOMAIN visits : visits[v].client_id = c}
               d    == [v \in rows |-> visits[v].duration_minutes]
           IN  [avg_duration |-> RDiv(RSum(d, rows), Whole(Cardinality(rows))),
                total_visits |-> Cardinality(rows)]]

\* the CTE client_stats: GROUP BY client_id HAVING total_visits >= 2
client_stats ==
    LET keys == {c \in {visits[v].client_id : v \in DOMAIN visits} :
                    Cardinality({v \in DOMAIN visits : visits[v].client_id = c}) >= 2}
    IN  [c \in keys |->
           LET rows == {v \in DOMAIN visits : visits[v].client_id = c}
               d    == [v \in rows |-> visits[v].duration_minutes]
           IN  [avg_duration |-> RDiv(RSum(d, rows), Whole(Cardinality(rows))),
                total_visits |-> Cardinality(rows)]]

\* (v.duration_minutes * 100.0 / cs.avg_duration), cs.avg_duration # 0
PercentOfAvg(duration_minutes, avg_duration) ==
    RDiv(RMul(duration_minutes, Whole(100)), avg_duration)

\* the rows of S as a list in ascending order of percent_of_avg (DESC forgotten)
RECURSIVE OrderByPercentAsc(_)
OrderByPercentAsc(S) ==
    IF S = {} THEN <<>>
    ELSE LET first == CHOOSE r \in S : \A q \in S :
                          \/ RLt(r.percent_of_avg, q.percent_of_avg)
                          \/ r.percent_of_avg = q.percent_of_avg /\ r.id <= q.id
         IN  <<first>> \o OrderByPercentAsc(S \ {first})

\* the rows of S as a list, ORDER BY percent_of_avg DESC (rows of equal
\* percent_of_avg in rowid order)
RECURSIVE OrderByPercentDesc(_)
OrderByPercentDesc(S) ==
    IF S = {} THEN <<>>
    ELSE LET first == CHOOSE r \in S : \A q \in S :
                          \/ RGt(r.percent_of_avg, q.percent_of_avg)
                          \/ r.percent_of_avg = q.percent_of_avg /\ r.id <= q.id
         IN  <<first>> \o OrderByPercentDesc(S \ {first})

\* > in place of the WHERE clause's >=
MeetsThreshold_Strict(percent_of_avg, threshold_percent) ==
    RGt(percent_of_avg, threshold_percent)

\* (v.duration_minutes * 100.0 / cs.avg_duration) >= ?
MeetsThreshold(percent_of_avg, threshold_percent) ==
    RGe(percent_of_avg, threshold_percent)

\* the outlier query with each visit measured against the mean of its
\* client's other visits
AnomalousRows_MeanOfOthers(threshold_percent) ==
    LET cs == client_stats
        others(v) == {w \in DOMAIN visits : visits[w].client_id = visits[v].client_id /\ w # v}
        mean(v) == RDiv(RSum([w \in others(v) |-> visits[w].duration_minutes], others(v)),
                        Whole(Cardinality(others(v))))
        hit == {v \in DOMAIN visits :
                   /\ visits[v].client_id \in DOMAIN clients
                   /\ visits[v].client_id \in DOMAIN cs
                   /\ RGt(mean(v), Zero)
                   /\ MeetsThreshold(PercentOfAvg(visits[v].duration_minutes, mean(v)),
                                     threshold_percent)}
    IN  {[id |-> v,
          client_id |-> visits[v].client_id,
          visit_date |-> visits[v].visit_date,
          duration_minutes |-> visits[v].duration_minutes,
          needs_review |-> visits[v].needs_review,
          client_name |-> clients[visits[v].client_id].name,
          avg_duration |-> mean(v),
          total_visits |-> cs[visits[v].client_id].total_visits,
          percent_of_avg |-> PercentOfAvg(visits[v].duration_minutes, mean(v))]
         : v \in hit}

\* visits v JOIN clients c ON v.client_id = c.id
\*          JOIN client_stats cs ON v.client_id = cs.client_id
\* WHERE cs.avg_duration > 0 AND (v.duration_minutes * 100.0 / cs.avg_duration) >= ?
AnomalousRows(threshold_percent) ==
    LET cs == client_stats
        hit == {v \in DOMAIN visits :
                   /\ visits[v].client_id \in DOMAIN clients
                   /\ visits[v].client_id \in DOMAIN cs
                   /\ RGt(cs[visits[v].client_id].avg_duration, Zero)
                   /\ MeetsThreshold(PercentOfAvg(visits[v].duration_minutes,
                                                  cs[visits[v].client_id].avg_duration),
                                     threshold_percent)}
    IN  {[id |-> v,
          client_id |-> visits[v].client_id,
          visit_date |-> visits[v].visit_date,
          duration_minutes |-> visits[v].duration_minutes,
          needs_review |-> visits[v].needs_review,
          client_name |-> clients[visits[v].client_id].name,
          avg_duration |-> cs[visits[v].client_id].avg_duration,
          total_visits |-> cs[visits[v].client_id].total_visits,
          percent_of_avg |-> PercentOfAvg(visits[v].duration_minutes,
                                          cs[visits[v].client_id].avg_duration)]
         : v \in hit}

get_visits_with_anomalous_durations(threshold_percent) ==
    OrderByPercentDesc(AnomalousRows(threshold_percent))

\* the rows of S as a list, ORDER BY visit_date DESC (start_time, the second
\* sort key, is not in the model: rows of one date are in rowid order)
RECURSIVE OrderByDateDesc(_)
OrderByDateDesc(S) ==
    IF S = {} THEN <<>>
    ELSE LET first == CHOOSE r \in S : \A q \in S :
                          \/ r.visit_date > q.visit_date
                          \/ r.visit_date = q.visit_date /\ r.id <= q.id
         IN  <<first>> \o OrderByDateDesc(S \ {first})

\* the review list filtered on the duration instead of the flag
NeedingReviewRows_LongVisits ==
    {[id |-> v,
      client_id |-> visits[v].client_id,
      visit_date |-> visits[v].visit_date,
      duration_minutes |-> visits[v].duration_minutes,
      needs_review |-> visits[v].needs_review,
      client_name |-> clients[visits[v].client_id].name]
     : v \in {w \in DOMAIN visits :
                 /\ visits[w].client_id \in DOMAIN clients
                 /\ RGe(visits[w].duration_minutes, Whole(300))}}

\* visits v JOIN clients c ON v.client_id = c.id WHERE v.needs_review = 1
NeedingReviewRows ==
    {[id |-> v,
      client_id |-> visits[v].client_id,
      visit_date |-> visits[v].visit_date,
      duration_minutes |-> visits[v].duration_minutes,
      needs_review |-> visits[v].needs_review,
      client_name |-> clients[visits[v].client_id].name]
     : v \in {w \in DOMAIN visits :
                 /\ visits[w].client_id \in DOMAIN clients
                 /\ visits[w].needs_review = 1}}

get_visits_needing_review == OrderByDateDesc(NeedingReviewRows)

(* The analytics calls as steps of the program: each runs SELECTs only and  *)
(* hands its result to the caller.                                          *)

\* the detector also writing needs_review = 1 on the visits it returns
call_get_visits_with_anomalous_durations_Flagging(threshold_percent) ==
    LET r == get_visits_with_anomalous_durations(threshold_percent)
    IN  /\ returned' = [call |-> "get_visits_with_anomalous_durations", value |-> r]
        /\ visits' = [v \in DOMAIN visits |->
                        IF \E k \in DOMAIN r : r[k].id = v
                        THEN [visits[v] EXCEPT !.needs_review = 1] ELSE visits[v]]
        /\ UNCHANGED <<clients, materials, client_materials, visit_materials, settings,
                       sqlite_sequence>>

call_get_visits_with_anomalous_durations(threshold_percent) ==
    /\ returned' = [call |-> "get_visits_with_anomalous_durations",
                    value |-> get_visits_with_anomalous_durations(threshold_percent)]
    /\ UNCHANGED tables

call_get_client_statistics(client_id) ==
    /\ returned' = [call |-> "get_client_statistics",
                    value |-> get_client_statistics(client_id)]
    /\ UNCHANGED tables

call_get_all_client_statistics(active_only) ==
    /\ returned' = [call |-> "get_all_client_statistics",
                    value |-> get_all_client_statistics(active_only)]
    /\ UNCHANGED tables

----------------------------------------------------------------------------
(* The window.  A handler runs on the event loop from start to end: it      *)
(* takes its step on the database when no handler is running and leaves    *)
(* the refreshes it ends with in handler.calls, which are made next, in     *)
(* order, before any other handler starts.  Refreshes of widgets that hold  *)
(* no modelled state (refresh_clients_list, load_client_visits,             *)
(* show_client_details, refresh_materials_list) are left out.               *)

\* no handler is running
Idle == handler.calls = <<>>

\* the handler name(arg) has made its database calls and has calls yet to make
Runs(name, arg, calls) ==
    /\ handler' = [name |-> name, arg |-> arg, calls |-> calls]
    /\ UNCHANGED <<all_client_stats, todo_durations, server>>

\* the running handler's next call is to f
Calling(f) == handler.calls # <<>> /\ Head(handler.calls) = f

\* refresh_dashboard: with no statistics it clears the frames and returns;
\* else self.all_client_stats = stats_list
refresh_dashboard ==
    /\ Calling("refresh_dashboard")
    /\ LET stats_list == get_all_client_statistics(TRUE)
       IN  all_client_stats' = IF stats_list = <<>> THEN all_client_stats
                               ELSE [assigned |-> TRUE, stats_list |-> stats_list]
    /\ handler' = [handler EXCEPT !.calls = Tail(@)]
    /\ UNCHANGED <<tables, returned, todo_durations, server>>

\* refresh_todo_list: the cards of the Unusual Durations list are those of
\* get_visits_with_anomalous_durations(threshold_percent=300.0)
refresh_todo_list ==
    /\ Calling("refresh_todo_list")
    /\ todo_durations' = get_visits_with_anomalous_durations(Whole(300))
    /\ handler' = [handler EXCEPT !.calls = Tail(@)]
    /\ UNCHANGED <<tables, returned, all_client_stats, server>>

----------------------------------------------------------------------------
(* Visit entry.  A time of day is its minute of the day; on one day,        *)
(* (end - start).total_seconds() / 60 is the difference of the two.         *)

\* table with rows added under the ids first_id, first_id + 1, ...
InsertAll(table, first_id, rows) ==
    [i \in DOMAIN table \cup (first_id..(first_id + Len(rows) - 1)) |->
        IF i \in DOMAIN table THEN table[i] ELSE rows[i - first_id + 1]]

\* the visit row add_visit stores with its default needs_review = 0
VisitRow(client_id, visit_date, duration) ==
    [client_id |-> client_id, visit_date |-> visit_date,
     duration_minutes |-> Whole(duration), needs_review |-> 0]

QuantityEntered(e) == RGt(e.qty, Zero)

\* add_new_visit's Save button: the duration from the two times, an error box
\* and nothing stored when it is negative; else add_visit, then
\* add_visit_material for every material with a quantity > 0, then
\* refresh_dashboard
save_visit(client_id, date_str, start, end, material_quantities) ==
    LET duration == end - start
        visit_id == NextId("visits")
        used == SelectSeq(material_quantities, QuantityEntered)
        first == NextId("visit_materials")
    IN  IF duration < 0 THEN Idle /\ UNCHANGED vars
        ELSE /\ Idle
             /\ client_id \in DOMAIN clients
             /\ \A k \in DOMAIN used : used[k].mat_id \in DOMAIN materials
             /\ visits' = Insert(visits, visit_id, VisitRow(client_id, date_str, duration))
             /\ visit_materials' =
                    InsertAll(visit_materials, first,
                              [k \in DOMAIN used |->
                                  [visit_id |-> visit_id, material_id |-> used[k].mat_id,
                                   quantity |-> used[k].qty, cost_at_time |-> used[k].cost]])
             /\ sqlite_sequence' = [sqlite_sequence EXCEPT
                                       !.visits = @ + 1, !.visit_materials = @ + Len(used)]
             /\ UNCHANGED <<clients, materials, client_materials, settings, returned>>
             /\ Runs("save_visit", client_id, <<"refresh_dashboard">>)

\* a scanned entry is imported when its box is checked and its client is known
ScannedSelected(data) == data.import_checkbox /\ data.client_id \in DOMAIN clients

\* duration = end - start; if duration < 0: duration += 24 * 60
ScannedDuration(data) ==
    IF data.end - data.start < 0 THEN data.end - data.start + 24 * 60
    ELSE data.end - data.start

\* import_all_visits: every checked scanned visit is added, then refresh_dashboard
import_all_visits(import_data) ==
    LET selected == SelectSeq(import_data, ScannedSelected)
        rows == [k \in DOMAIN selected |->
                    VisitRow(selected[k].client_id, selected[k].date,
                             ScannedDuration(selected[k]))]
    IN  /\ Idle
        /\ visits' = InsertAll(visits, NextId("visits"), rows)
        /\ sqlite_sequence' = [sqlite_sequence EXCEPT !.visits = @ + Len(rows)]
        /\ UNCHANGED <<clients, materials, client_materials, visit_materials, settings,
                       returned>>
        /\ Runs("import_all_visits", None, <<"refresh_dashboard">>)

\* an Excel row is imported when its client is found and its end is after its start
ExcelRowAccepted(row) == row.client_id \in DOMAIN clients /\ row.end - row.start > 0

\* ExcelImporter._import_visits: every accepted row is added, the others reported
_import_visits(sheet) ==
    LET accepted == SelectSeq(sheet, ExcelRowAccepted)
        rows == [k \in DOMAIN accepted |->
                    VisitRow(accepted[k].client_id, accepted[k].date,
                             accepted[k].end - accepted[k].start)]
    IN  /\ visits' = InsertAll(visits, NextId("visits"), rows)
        /\ sqlite_sequence' = [sqlite_sequence EXCEPT !.visits = @ + Len(rows)]
        /\ UNCHANGED <<clients, materials, client_materials, visit_materials, settings,
                       returned>>

\* save_and_mark_reviewed: an error box and nothing stored when the duration
\* is not positive; else update_visit with needs_review = 0, then
\* refresh_todo_list and refresh_dashboard
save_and_mark_reviewed(visit_id, date_str, start, end) ==
    LET duration == end - start
    IN  IF duration <= 0 THEN Idle /\ UNCHANGED vars
        ELSE /\ Idle
             /\ update_visit(visit_id, [visit_date |-> date_str,
                                        duration_minutes |-> Whole(duration),
                                        needs_review |-> 0])
             /\ Runs("save_and_mark_reviewed", visit_id,
                     <<"refresh_todo_list", "refresh_dashboard">>)

(* ---- handlers of the To-Do tab and of the header ---- *)

\* the visits on the cards of the Unusual Durations list
ShownAnomalies == {todo_durations[k].id : k \in DOMAIN todo_durations}

\* the card's "Looks Correct" button: refresh_todo_list, nothing else
ignore_anomaly(visit_id) ==
    /\ Idle
    /\ visit_id \in ShownAnomalies
    /\ UNCHANGED <<tables, returned>>
    /\ Runs("ignore_anomaly", visit_id, <<"refresh_todo_list">>)

\* the card's "Delete Visit" button
delete_anomalous_visit(visit_id) ==
    /\ Idle
    /\ visit_id \in ShownAnomalies
    /\ delete_visit(visit_id)
    /\ Runs("delete_anomalous_visit", visit_id, <<"refresh_todo_list", "refresh_dashboard">>)

\* the header's "Refresh All" button
refresh_all ==
    /\ Idle
    /\ UNCHANGED <<tables, returned>>
    /\ Runs("refresh_all", None, <<"refresh_dashboard", "refresh_todo_list">>)

\* add_new_client's Save button
save_new_client(name, monthly_charge) ==
    /\ Idle
    /\ add_client(name, monthly_charge)
    /\ Runs("save_new_client", None, <<"refresh_dashboard">>)

\* save_client_changes: update_client, then refresh_dashboard
save_client_changes(client_id, monthly_charge) ==
    /\ Idle
    /\ client_id \in DOMAIN clients
    /\ update_client(client_id, [monthly_charge |-> monthly_charge])
    /\ Runs("save_client_changes", client_id, <<"refresh_dashboard">>)

\* LandscapingApp.delete_client, confirmed: the database's delete_client, then
\* refresh_dashboard
LandscapingApp_delete_client(client_id) ==
    /\ Idle
    /\ client_id \in DOMAIN clients
    /\ delete_client(client_id)
    /\ Runs("delete_client", client_id, <<"refresh_dashboard">>)

\* LandscapingApp.delete_visit, confirmed: the database's delete_visit, then
\* refresh_dashboard
LandscapingApp_delete_visit(visit_id) ==
    /\ Idle
    /\ visit_id \in DOMAIN visits
    /\ delete_visit(visit_id)
    /\ Runs("delete_visit", visit_id, <<"refresh_dashboard">>)

\* add_new_material's Save button: add_material, then refresh_materials_list
save_material(default_cost, material_type) ==
    /\ Idle
    /\ add_material(default_cost, material_type)
    /\ Runs("save_material", None, <<>>)

\* the client has material_id among its configured materials
Existing(client_id, material_id) ==
    \E cm \in DOMAIN client_materials :
        /\ client_materials[cm].client_id = client_id
        /\ client_materials[cm].material_id = material_id

\* save_all_material_changes for a table in which one row was edited: a row
\* checked for deletion is removed (it is an existing one), any other row is
\* added (an existing one removed first, which INSERT OR REPLACE does as
\* well); then show_client_details, and no refresh_dashboard
save_all_material_changes(client_id, row) ==
    /\ Idle
    /\ client_id \in DOMAIN clients
    /\ row.material_id \in DOMAIN materials
    /\ IF row.delete_var
       THEN /\ Existing(client_id, row.material_id)
            /\ remove_client_material(client_id, row.material_id)
       ELSE add_client_material(client_id, row.material_id, row.custom_cost, row.multiplier)
    /\ Runs("save_all_material_changes", client_id, <<>>)

\* LandscapingApp.delete_material, confirmed: the database's delete_material,
\* then refresh_materials_list, and no refresh_dashboard
LandscapingApp_delete_material(material_id) ==
    /\ Idle
    /\ material_id \in DOMAIN materials
    /\ delete_material(material_id)
    /\ Runs("delete_material", material_id, <<>>)

\* the settings dialog's Save button with a rate above 0: set_hourly_rate,
\* then refresh_dashboard (the other settings it stores are not read by the
\* statistics)
save_settings(new_rate) ==
    /\ Idle
    /\ RGt(new_rate, Zero)
    /\ set_hourly_rate(new_rate)
    /\ Runs("save_settings", None, <<"refresh_dashboard">>)

(* ---- the upload servers ---- *)

(* Flask serves every request on a thread of its own.  A request is a     *)
(* thread t; the image it carries is named by t.  Each statement that     *)
(* reads or writes a field shared between threads is a step.              *)

\* datetime.now().strftime('%Y%m%d_%H%M%S'): the clock to the second
timestamp == now

\* the function f with key k set to value x
Put(f, k, x) == [i \in DOMAIN f \cup {k} |-> IF i = k THEN x ELSE f[i]]

\* the clock moves on to the next second
Tick ==
    /\ now' = now + 1
    /\ UNCHANGED <<tables, returned, gui, pending_mobile_uploads, uploads, after_calls,
                   scan_pipeline, mobile_requests, temp_dir, upload_count,
                   upload_requests, upload_callback_calls>>

\* MobileServer.upload, up to file.save: filename = mobile_upload_<timestamp>.jpg,
\* filepath = temp_dir/filename, the image written under it
MobileServer_upload(t) ==
    /\ t \notin DOMAIN mobile_requests
    /\ LET filepath == <<"mobile_upload", timestamp>>
       IN  /\ temp_dir' = Put(temp_dir, filepath, t)
           /\ mobile_requests' = Put(mobile_requests, t, [pc |-> "callback", filepath |-> filepath])
    /\ UNCHANGED <<tables, returned, gui, pending_mobile_uploads, uploads, after_calls,
                   scan_pipeline, now, upload_count, upload_requests, upload_callback_calls>>

\* self.callback(filepath), first statement of handle_mobile_upload:
\* self.pending_mobile_uploads.append(filepath)
handle_mobile_upload(t) ==
    /\ t \in DOMAIN mobile_requests
    /\ mobile_requests[t].pc = "callback"
    /\ pending_mobile_uploads' = Append(pending_mobile_uploads, mobile_requests[t].filepath)
    /\ mobile_requests' = [mobile_requests EXCEPT ![t].pc = "after"]
    /\ UNCHANGED <<tables, returned, gui, uploads, after_calls, scan_pipeline, now,
                   temp_dir, upload_count, upload_requests, upload_callback_calls>>

\* second statement of handle_mobile_upload:
\* self.after(100, self.process_pending_mobile_uploads); the request is answered
schedule_processing(t) ==
    /\ t \in DOMAIN mobile_requests
    /\ mobile_requests[t].pc = "after"
    /\ after_calls' = after_calls + 1
    /\ mobile_requests' = [mobile_requests EXCEPT ![t].pc = "done"]
    /\ UNCHANGED <<tables, returned, gui, pending_mobile_uploads, uploads, scan_pipeline,
                   now, temp_dir, upload_count, upload_requests, upload_callback_calls>>

\* process_pending_mobile_uploads on the main thread, up to copy(): it returns
\* when the list is empty, else uploads = self.pending_mobile_uploads.copy()
process_pending_mobile_uploads ==
    /\ after_calls > 0
    /\ uploads = <<>>
    /\ after_calls' = after_calls - 1
    /\ uploads' = pending_mobile_uploads
    /\ UNCHANGED <<tables, returned, gui, pending_mobile_uploads, scan_pipeline, now,
                   mobile_requests, temp_dir, upload_count, upload_requests,
                   upload_callback_calls>>

\* the rest of process_pending_mobile_uploads:
\* self.pending_mobile_uploads.clear(), then uploads goes to
\* process_single_mobile_upload or process_multiple_mobile_uploads
clear_and_process ==
    /\ uploads # <<>>
    /\ pending_mobile_uploads' = <<>>
    /\ scan_pipeline' = Append(scan_pipeline, uploads)
    /\ uploads' = <<>>
    /\ UNCHANGED <<tables, returned, gui, after_calls, now, mobile_requests, temp_dir,
                   upload_count, upload_requests, upload_callback_calls>>

\* UploadServer.upload, up to the file name:
\* filename = upload_<timestamp>_<self.upload_count>.jpg
UploadServer_upload(t) ==
    /\ t \notin DOMAIN upload_requests
    /\ upload_requests' = Put(upload_requests, t,
                              [pc |-> "load", filename |-> <<"upload", timestamp, upload_count>>,
                               loaded |-> 0])
    /\ UNCHANGED <<tables, returned, gui, pending_mobile_uploads, uploads, after_calls,
                   scan_pipeline, now, mobile_requests, temp_dir, upload_count,
                   upload_callback_calls>>

\* self.upload_count += 1, the read of self.upload_count
load_upload_count(t) ==
    /\ t \in DOMAIN upload_requests
    /\ upload_requests[t].pc = "load"
    /\ upload_requests' = [upload_requests EXCEPT ![t].pc = "store", ![t].loaded = upload_count]
    /\ UNCHANGED <<tables, returned, gui, pending_mobile_uploads, uploads, after_calls,
                   scan_pipeline, now, mobile_requests, temp_dir, upload_count,
                   upload_callback_calls>>

\* self.upload_count += 1, the write of the sum
store_upload_count(t) ==
    /\ t \in DOMAIN upload_requests
    /\ upload_requests[t].pc = "store"
    /\ upload_count' = upload_requests[t].loaded + 1
    /\ upload_requests' = [upload_requests EXCEPT ![t].pc = "callback"]
    /\ UNCHANGED <<tables, returned, gui, pending_mobile_uploads, uploads, after_calls,
                   scan_pipeline, now, mobile_requests, temp_dir, upload_callback_calls>>

\* self.upload_callback(filename, image_data); the request is answered
upload_callback(t) ==
    /\ t \in DOMAIN upload_requests
    /\ upload_requests[t].pc = "callback"
    /\ upload_callback_calls' =
           Append(upload_callback_calls, [filename |-> upload_requests[t].filename, image_data |-> t])
    /\ upload_requests' = [upload_requests EXCEPT ![t].pc = "done"]
    /\ UNCHANGED <<tables, returned, gui, pending_mobile_uploads, uploads, after_calls,
                   scan_pipeline, now, mobile_requests, temp_dir, upload_count>>

----------------------------------------------------------------------------
(* Specifications.  Every one starts from the freshly created database and *)
(* runs the store's operations on inputs from small sets; the AUTOINCREMENT *)
(* counters, which only grow, are capped in the guards.                     *)

\* rows ever inserted, over all tables
Inserted ==
    sqlite_sequence.clients + sqlite_sequence.materials + sqlite_sequence.client_materials
    + sqlite_sequence.visits + sqlite_sequence.visit_materials

MaxInserts == 4
MaxClients == MaxInserts \div 2
MaxMaterials == MaxInserts \div 2
MaxVisits == MaxInserts - 1

Names == {1, 2}
Charges == {Zero, Rat(21667, 100)}
Costs == {Rat(5, 100), Rat(9, 100)}
CustomCosts == {None, Whole(10)}
Multipliers == {Whole(3), Rat(8, 100)}
MaterialTypes == {"material", "service"}
Durations == {Whole(60), Whole(100)}
Years == {current_year - 1, current_year}
Quantities == {Whole(2)}
CostsAtTime == {Rat(15, 2)}
Rates == {Whole(25), Whole(30)}

ClientIds == 1..MaxClients
MaterialIds == 1..MaxMaterials
VisitIds == 1..MaxVisits

Room == Inserted < MaxInserts

\* the store under every operation that feeds the statistics
Next ==
    \/ \E n \in Names, m \in Charges :
          Room /\ sqlite_sequence.clients < MaxClients /\ add_client(n, m) /\ UNCHANGED app
    \/ \E c \in DOMAIN clients, m \in Charges : update_client(c, [monthly_charge |-> m]) /\ UNCHANGED app
    \/ \E c \in DOMAIN clients : deactivate_client(c) /\ UNCHANGED app
    \/ \E c \in DOMAIN clients : activate_client(c) /\ UNCHANGED app
    \/ \E c \in DOMAIN clients : delete_client(c) /\ UNCHANGED app
    \/ \E d \in Costs, t \in MaterialTypes :
          Room /\ sqlite_sequence.materials < MaxMaterials /\ add_material(d, t) /\ UNCHANGED app
    \/ \E m \in DOMAIN materials, t \in MaterialTypes : update_material(m, [material_type |-> t]) /\ UNCHANGED app
    \/ \E m \in DOMAIN materials, d \in Costs : update_material(m, [default_cost |-> d]) /\ UNCHANGED app
    \/ \E m \in DOMAIN materials : delete_material(m) /\ UNCHANGED app
    \/ \E c \in ClientIds, m \in MaterialIds, k \in CustomCosts, x \in Multipliers :
          Room /\ add_client_material(c, m, k, x) /\ UNCHANGED app
    \/ \E c \in ClientIds, m \in MaterialIds : remove_client_material(c, m) /\ UNCHANGED app
    \/ \E c \in ClientIds, y \in Years, d \in Durations :
          Room /\ sqlite_sequence.visits < MaxVisits /\ add_visit(c, y, d, 0) /\ UNCHANGED app
    \/ \E v \in DOMAIN visits : delete_visit(v) /\ UNCHANGED app
    \/ \E v \in VisitIds, m \in MaterialIds, q \in Quantities, k \in CostsAtTime :
          Room /\ add_visit_material(v, m, q, k) /\ UNCHANGED app
    \/ \E vm \in DOMAIN visit_materials : delete_visit_material(vm) /\ UNCHANGED app
    \/ \E r \in Rates : set_hourly_rate(r) /\ UNCHANGED app

Spec == Init /\ [][Next]_vars

\* the configured (recurring) materials and services of a few clients, some of
\* which have a visit
MaxConfiguredInserts == 5
MaxConfiguredClients == MaxConfiguredInserts \div 2
MaxConfiguredMaterials == MaxConfiguredInserts \div 2

NextConfigured ==
    \/ /\ Inserted < MaxConfiguredInserts
       /\ sqlite_sequence.clients < MaxConfiguredClients
       /\ add_client(1, Zero) /\ UNCHANGED app
    \/ \E d \in Costs, t \in MaterialTypes :
          /\ Inserted < MaxConfiguredInserts
          /\ sqlite_sequence.materials < MaxConfiguredMaterials
          /\ add_material(d, t) /\ UNCHANGED app
    \/ \E m \in DOMAIN materials, t \in MaterialTypes : update_material(m, [material_type |-> t]) /\ UNCHANGED app
    \/ \E c \in 1..MaxConfiguredClients, m \in 1..MaxConfiguredMaterials,
          k \in CustomCosts, x \in Multipliers :
          Inserted < MaxConfiguredInserts /\ add_client_material(c, m, k, x) /\ UNCHANGED app
    \/ \E c \in 1..MaxConfiguredClients, m \in 1..MaxConfiguredMaterials :
          remove_client_material(c, m) /\ UNCHANGED app
    \/ \E c \in 1..MaxConfiguredClients :
          /\ Inserted < MaxConfiguredInserts
          /\ sqlite_sequence.visits < 1
          /\ add_visit(c, current_year, Whole(60), 0) /\ UNCHANGED app
    \/ \E v \in DOMAIN visits : delete_visit(v) /\ UNCHANGED app
    \/ \E r \in Rates : set_hourly_rate(r) /\ UNCHANGED app

SpecConfigured == Init /\ [][NextConfigured]_vars

\* clients charged whole and fractional cents, with configured materials and
\* services, as the derived fields of a record read them
MaxDerivedInserts == 5
MaxDerivedClients == MaxDerivedInserts \div 2
MaxDerivedMaterials == MaxDerivedInserts \div 2

DerivedCharges == {Zero, Rat(6, 1000)}

NextDerived ==
    \/ \E m \in DerivedCharges :
          /\ Inserted < MaxDerivedInserts
          /\ sqlite_sequence.clients < MaxDerivedClients
          /\ add_client(1, m) /\ UNCHANGED app
    \/ \E d \in Costs, t \in MaterialTypes :
          /\ Inserted < MaxDerivedInserts
          /\ sqlite_sequence.materials < MaxDerivedMaterials
          /\ add_material(d, t) /\ UNCHANGED app
    \/ \E m \in DOMAIN materials, t \in MaterialTypes : update_material(m, [material_type |-> t]) /\ UNCHANGED app
    \/ \E c \in 1..MaxDerivedClients, m \in 1..MaxDerivedMaterials,
          k \in CustomCosts, x \in Multipliers :
          Inserted < MaxDerivedInserts /\ add_client_material(c, m, k, x) /\ UNCHANGED app
    \/ \E c \in 1..MaxDerivedClients, m \in 1..MaxDerivedMaterials :
          remove_client_material(c, m) /\ UNCHANGED app
    \/ \E c \in 1..MaxDerivedClients :
          /\ Inserted < MaxDerivedInserts
          /\ sqlite_sequence.visits < 1
          /\ add_visit(c, current_year, Whole(60), 0) /\ UNCHANGED app

SpecDerived == Init /\ [][NextDerived]_vars

\* the visit history of a few clients, as the anomaly detector reads it
MaxAnomalyVisits == 4
MaxAnomalyClients == MaxAnomalyVisits \div 2

AnomalyDurations == {Zero, Whole(60), Whole(300)}
Thresholds == {Zero, Whole(100), Whole(200), Whole(300)}

NextAnomaly ==
    \/ sqlite_sequence.clients < MaxAnomalyClients /\ add_client(1, Zero) /\ UNCHANGED app
    \/ \E c \in DOMAIN clients : delete_client(c) /\ UNCHANGED app
    \/ \E c \in 1..MaxAnomalyClients, d \in AnomalyDurations :
          sqlite_sequence.visits < MaxAnomalyVisits /\ add_visit(c, current_year, d, 0) /\ UNCHANGED app
    \/ \E v \in DOMAIN visits, d \in AnomalyDurations : update_visit(v, [duration_minutes |-> d]) /\ UNCHANGED app
    \/ \E v \in DOMAIN visits : delete_visit(v) /\ UNCHANGED app

SpecAnomaly == Init /\ [][NextAnomaly]_vars

\* the analytics calls between changes of a small store
MaxQueryVisits == 2

NextQueries ==
    \/ sqlite_sequence.clients < 1 /\ add_client(1, Zero) /\ UNCHANGED app
    \/ \E d \in {Whole(60), Whole(300)}, n \in {0, 1} :
          sqlite_sequence.visits < MaxQueryVisits /\ add_visit(1, current_year, d, n) /\ UNCHANGED app
    \/ \E v \in DOMAIN visits : delete_visit(v) /\ UNCHANGED app
    \/ \E t \in {Whole(100), Whole(300)} : call_get_visits_with_anomalous_durations(t) /\ UNCHANGED app
    \/ \E c \in 1..2 : call_get_client_statistics(c) /\ UNCHANGED app
    \/ \E a \in BOOLEAN : call_get_all_client_statistics(a) /\ UNCHANGED app

SpecQueries == Init /\ [][NextQueries]_vars

\* rate changes between visits and statistics calls
MaxRateVisits == 2

RateInputs == {Whole(25), Whole(30), Rat(5111, 200)}

NextRates ==
    \/ sqlite_sequence.clients < 1 /\ add_client(1, Zero) /\ UNCHANGED app
    \/ \E d \in Durations :
          sqlite_sequence.visits < MaxRateVisits /\ add_visit(1, current_year, d, 0) /\ UNCHANGED app
    \/ \E r \in RateInputs : set_hourly_rate(r) /\ UNCHANGED app
    \/ call_get_client_statistics(1) /\ UNCHANGED app
    \/ call_get_all_client_statistics(TRUE) /\ UNCHANGED app

SpecRates == Init /\ [][NextRates]_vars

\* the visits of two clients and the rate, as the labor figures read them
MaxLaborVisits == 3
MaxLaborClients == (MaxLaborVisits + 1) \div 2

LaborDurations == {Whole(60), Whole(120)}

NextLabor ==
    \/ sqlite_sequence.clients < MaxLaborClients /\ add_client(1, Zero) /\ UNCHANGED app
    \/ \E c \in 1..MaxLaborClients, d \in LaborDurations :
          sqlite_sequence.visits < MaxLaborVisits /\ add_visit(c, current_year, d, 0) /\ UNCHANGED app
    \/ \E v \in DOMAIN visits, d \in LaborDurations : update_visit(v, [duration_minutes |-> d]) /\ UNCHANGED app
    \/ \E v \in DOMAIN visits : delete_visit(v) /\ UNCHANGED app
    \/ \E r \in Rates : set_hourly_rate(r) /\ UNCHANGED app

SpecLabor == Init /\ [][NextLabor]_vars

\* one client's catalog, configuration and logged visit materials
MaxCatalogInserts == 6
MaxCatalogMaterials == MaxCatalogInserts \div 3

TypeInputs == {"material", "service", "equipment"}
CatalogMultipliers == {Whole(3)}

NextCatalog ==
    \/ \E m \in Charges : sqlite_sequence.clients < 1 /\ add_client(1, m) /\ UNCHANGED app
    \/ \E d \in Costs, t \in TypeInputs :
          /\ Inserted < MaxCatalogInserts
          /\ sqlite_sequence.materials < MaxCatalogMaterials
          /\ add_material(d, t) /\ UNCHANGED app
    \/ \E m \in DOMAIN materials, t \in TypeInputs : update_material(m, [material_type |-> t]) /\ UNCHANGED app
    \/ \E m \in DOMAIN materials, d \in Costs : update_material(m, [default_cost |-> d]) /\ UNCHANGED app
    \/ \E m \in 1..MaxCatalogMaterials, k \in CustomCosts, x \in CatalogMultipliers :
          Inserted < MaxCatalogInserts /\ add_client_material(1, m, k, x) /\ UNCHANGED app
    \/ \E m \in 1..MaxCatalogMaterials : remove_client_material(1, m) /\ UNCHANGED app
    \/ sqlite_sequence.visits < 1 /\ add_visit(1, current_year, Whole(60), 0) /\ UNCHANGED app
    \/ \E m \in 1..MaxCatalogMaterials, q \in Quantities, k \in CostsAtTime :
          Inserted < MaxCatalogInserts /\ add_visit_material(1, m, q, k) /\ UNCHANGED app
    \/ \E vm \in DOMAIN visit_materials : delete_visit_material(vm) /\ UNCHANGED app

SpecCatalog == Init /\ [][NextCatalog]_vars

\* visits entered by hand, from scanned images and from Excel sheets
MaxEntryVisits == 3

TimesOfDay == {540, 600}
ScannedEntries ==
    [client_id : {1}, date : {current_year}, start : TimesOfDay, end : TimesOfDay,
     import_checkbox : BOOLEAN]
ScannedLists ==
    {<<d>> : d \in ScannedEntries} \cup {<<d, e>> : d, e \in ScannedEntries}
ExcelRows == [client_id : {1, 2}, date : Years, start : TimesOfDay, end : TimesOfDay]

NextVisitEntry ==
    \/ Idle /\ sqlite_sequence.clients < 1 /\ add_client(1, Zero) /\ UNCHANGED app
    \/ \E y \in Years, a \in TimesOfDay, b \in TimesOfDay :
          sqlite_sequence.visits < MaxEntryVisits /\ save_visit(1, y, a, b, <<>>)
    \/ \E import_data \in ScannedLists :
          /\ sqlite_sequence.visits + Len(import_data) <= MaxEntryVisits
          /\ import_all_visits(import_data)
    \/ \E r \in ExcelRows :
          Idle /\ sqlite_sequence.visits < MaxEntryVisits /\ _import_visits(<<r>>) /\ UNCHANGED app
    \/ \E v \in DOMAIN visits, y \in Years, a \in TimesOfDay, b \in TimesOfDay :
          save_and_mark_reviewed(v, y, a, b)
    \/ \E v \in DOMAIN visits : Idle /\ delete_visit(v) /\ UNCHANGED app
    \/ refresh_todo_list
    \/ refresh_dashboard

SpecVisitEntry == Init /\ [][NextVisitEntry]_vars

\* visits flagged and unflagged by hand, between changes of their durations
MaxReviewVisits == 3

ReviewDurations == {Whole(60), Whole(300)}
ReviewFlags == {0, 1}

NextReview ==
    \/ sqlite_sequence.clients < 1 /\ add_client(1, Zero) /\ UNCHANGED app
    \/ \E d \in ReviewDurations, y \in Years, n \in ReviewFlags :
          sqlite_sequence.visits < MaxReviewVisits /\ add_visit(1, y, d, n) /\ UNCHANGED app
    \/ \E v \in DOMAIN visits, n \in ReviewFlags : update_visit(v, [needs_review |-> n]) /\ UNCHANGED app
    \/ \E v \in DOMAIN visits, d \in ReviewDurations : update_visit(v, [duration_minutes |-> d]) /\ UNCHANGED app
    \/ \E v \in DOMAIN visits : mark_visit_reviewed(v) /\ UNCHANGED app

SpecReview == Init /\ [][NextReview]_vars

\* visits entered in the window and the To-Do tab's list of unusual durations
MaxTodoVisits == 4

TodoEndTimes == {60, 600}

NextTodo ==
    \/ sqlite_sequence.clients < 1 /\ save_new_client(1, Zero)
    \/ \E b \in TodoEndTimes :
          sqlite_sequence.visits < MaxTodoVisits /\ save_visit(1, current_year, 0, b, <<>>)
    \/ refresh_all
    \/ \E v \in DOMAIN visits : ignore_anomaly(v)
    \/ \E v \in DOMAIN visits : delete_anomalous_visit(v)
    \/ refresh_todo_list
    \/ refresh_dashboard

SpecTodo == Init /\ [][NextTodo]_vars

\* a few uploads to each server, in the same second or in different ones, and
\* the window's processing of the mobile uploads
MaxRequests == 2
MaxSeconds == 1

Threads == 1..MaxRequests

NextServers ==
    \/ now < MaxSeconds /\ Tick
    \/ \E t \in Threads : MobileServer_upload(t)
    \/ \E t \in Threads : handle_mobile_upload(t)
    \/ \E t \in Threads : schedule_processing(t)
    \/ process_pending_mobile_uploads
    \/ clear_and_process
    \/ \E t \in Threads : UploadServer_upload(t)
    \/ \E t \in Threads : load_upload_count(t)
    \/ \E t \in Threads : store_upload_count(t)
    \/ \E t \in Threads : upload_callback(t)

SpecServers == Init /\ [][NextServers]_vars

\* the visit history of a few clients with short and very long visits
MaxOutlierVisits == 4
MaxOutlierClients == MaxOutlierVisits \div 2

OutlierDurations == {Zero, Whole(60), Whole(600)}

NextOutliers ==
    \/ sqlite_sequence.clients < MaxOutlierClients /\ add_client(1, Zero) /\ UNCHANGED app
    \/ \E c \in DOMAIN clients, d \in OutlierDurations :
          sqlite_sequence.visits < MaxOutlierVisits /\ add_visit(c, current_year, d, 0) /\ UNCHANGED app
    \/ \E v \in DOMAIN visits, d \in OutlierDurations : update_visit(v, [duration_minutes |-> d]) /\ UNCHANGED app
    \/ \E v \in DOMAIN visits : delete_visit(v) /\ UNCHANGED app

SpecOutliers == Init /\ [][NextOutliers]_vars

\* the window's handlers that change what the dashboard's statistics are
\* computed from
MaxDashboardClients == 2
MaxDashboardVisits == 1
MaxDashboardMaterials == 1
MaxDashboardRows == 1

DashboardCharges == {Whole(100), Whole(200)}

MaterialRows ==
    [delete_var : BOOLEAN, material_id : 1..MaxDashboardMaterials,
     custom_cost : {Whole(10)}, multiplier : {Whole(1)}]

NextDashboard ==
    \/ sqlite_sequence.clients < MaxDashboardClients /\ save_new_client(1, Whole(100))
    \/ \E c \in DOMAIN clients, x \in DashboardCharges : save_client_changes(c, x)
    \/ \E c \in DOMAIN clients : LandscapingApp_delete_client(c)
    \/ \E c \in DOMAIN clients :
          sqlite_sequence.visits < MaxDashboardVisits /\ save_visit(c, current_year, 0, 60, <<>>)
    \/ \E v \in DOMAIN visits : LandscapingApp_delete_visit(v)
    \/ sqlite_sequence.materials < MaxDashboardMaterials /\ save_material(Whole(5), "material")
    \/ \E c \in DOMAIN clients, row \in MaterialRows :
          /\ ~row.delete_var => sqlite_sequence.client_materials < MaxDashboardRows
          /\ save_all_material_changes(c, row)
    \/ \E m \in DOMAIN materials : LandscapingApp_delete_material(m)
    \/ \E r \in Rates : save_settings(r)
    \/ refresh_dashboard

SpecDashboard == Init /\ [][NextDashboard]_vars

----------------------------------------------------------------------------
(* Claims.                                                                 *)

VisitsOf(c) == {v \in DOMAIN visits : visits[v].client_id = c}
DurationSum(c) == RSum([v \in VisitsOf(c) |-> visits[v].duration_minutes], VisitsOf(c))
BatchRecords(active_only) == Range(get_all_client_statistics(active_only))

\* C1: every record of get_all_client_statistics(active_only=True) equals,
\* field for field, get_client_statistics of the same client.
C1_BatchEquivalence ==
    \A r \in BatchRecords(TRUE) : r = get_client_statistics(r.client_id)

\* C2 as stated: a client with no visits gets visit_count = 0,
\* avg_cost_per_visit = 0, projected_yearly_labor_cost = 0 and an est_yearly_cost
\* equal to the sum of the returned configured_materials_cost_yearly and
\* configured_services_cost_yearly.
C2_ZeroVisitSafety_AsStated ==
    \A c \in DOMAIN clients :
        VisitsOf(c) = {} =>
            LET s == get_client_statistics(c)
            IN  /\ s # EmptyDict
                /\ s.visit_count = 0
                /\ s.avg_cost_per_visit = Zero
                /\ s.projected_yearly_labor_cost = Zero
                /\ s.est_yearly_cost = RAdd(s.configured_materials_cost_yearly,
                                            s.configured_services_cost_yearly)

\* C2, amended: a client with no visits gets a record with visit_count = 0,
\* avg_cost_per_visit = 0, projected_yearly_labor_cost = 0 and est_yearly_cost
\* equal to the unrounded configured materials + services total, rounded to 2
\* decimals (no labor in it).
C2_ZeroVisitSafety ==
    \A c \in DOMAIN clients :
        VisitsOf(c) = {} =>
            LET s == get_client_statistics(c)
            IN  /\ s # EmptyDict
                /\ s.visit_count = 0
                /\ s.avg_cost_per_visit = Zero
                /\ s.projected_yearly_labor_cost = Zero
                /\ s.total_labor_cost = Zero
                /\ s.est_yearly_cost =
                       round(RAdd(ConfiguredCost(c, "material"),
                                  ConfiguredCost(c, "service")), 2)

\* a client without visits that has a configured material and a configured
\* service
C2_Witness ==
    \E c \in DOMAIN clients :
        /\ VisitsOf(c) = {}
        /\ RGt(ConfiguredCost(c, "material"), Zero)
        /\ RGt(ConfiguredCost(c, "service"), Zero)
        /\ get_client_statistics(c).est_yearly_cost # Zero

\* C3: in get_all_client_statistics, avg_cost_per_visit is (total_labor_cost +
\* total_materials_services_cost) / visit_count when visit_count > 0, and 0
\* when visit_count = 0.
C3_BatchAvgCostGuard ==
    \A r \in BatchRecords(TRUE) :
        LET c == r.client_id
            n == Cardinality(VisitsOf(c))
            total_cost ==
                RAdd(LaborCost(DurationSum(c), get_hourly_rate),
                     RAdd(RAdd(ConfiguredCost(c, "material"), VisitCost(c, "material")),
                          RAdd(ConfiguredCost(c, "service"), VisitCost(c, "service"))))
        IN  r.avg_cost_per_visit =
                IF n > 0 THEN round(RDiv(total_cost, Whole(n)), 2) ELSE Zero

\* C4: in a statistics record (single or batch), whenever the client's
\* monthly_charge equals the returned proposed_monthly_rate, the returned
\* monthly_profit_loss is 0 and is_profitable is true.
C4_ProfitabilityBoundary ==
    \A c \in DOMAIN clients :
        \A s \in {get_client_statistics(c)} \cup {r \in BatchRecords(TRUE) : r.client_id = c} :
            clients[c].monthly_charge = s.proposed_monthly_rate =>
                s.monthly_profit_loss = Zero /\ s.is_profitable

\* C5: in every statistics record (single or batch), is_profitable is true
\* exactly when the returned, rounded monthly_profit_loss is >= 0.
C5_ProfitableFlagMatchesReported ==
    \A c \in DOMAIN clients :
        \A s \in {get_client_statistics(c)} \cup {r \in BatchRecords(TRUE) : r.client_id = c} :
            s.is_profitable <=> RGe(s.monthly_profit_loss, Zero)

\* the ids of the visits get_visits_with_anomalous_durations(t) returns
Flagged(t) ==
    LET r == get_visits_with_anomalous_durations(t) IN {r[k].id : k \in DOMAIN r}

\* visit v is at or above t percent of the mean of all its client's visits,
\* v included: duration * 100 / (sum / n) >= t, with sum # 0
AtOrAbove(v, t) ==
    LET c == visits[v].client_id
        n == Cardinality(VisitsOf(c))
    IN  /\ DurationSum(c) # Zero
        /\ RGe(RMul(RMul(visits[v].duration_minutes, Whole(100)), Whole(n)),
               RMul(t, DurationSum(c)))

\* a client whose visits last 60, 60, 60 and 300 minutes
Has60x3And300(c) ==
    /\ Cardinality(VisitsOf(c)) = 4
    /\ Cardinality({v \in VisitsOf(c) : visits[v].duration_minutes = Whole(60)}) = 3
    /\ Cardinality({v \in VisitsOf(c) : visits[v].duration_minutes = Whole(300)}) = 1

\* C6: get_visits_with_anomalous_durations(t) returns a visit exactly when its
\* client has at least 2 visits, the mean duration of all that client's visits
\* (the tested one included) is non-zero and duration * 100 / mean >= t; with
\* durations 60, 60, 60, 300 the mean is 120 and the 300-minute visit is at
\* 250%: not returned for t = 300, returned for t = 200.
C6_AnomalyMembership ==
    /\ \A t \in Thresholds : \A v \in DOMAIN visits :
          v \in Flagged(t) <=>
              Cardinality(VisitsOf(visits[v].client_id)) >= 2 /\ AtOrAbove(v, t)
    /\ \A c \in DOMAIN clients :
          Has60x3And300(c) =>
              \A v \in VisitsOf(c) :
                  visits[v].duration_minutes = Whole(300) =>
                      /\ v \notin Flagged(Whole(300))
                      /\ v \in Flagged(Whole(200))
                      /\ \E k \in DOMAIN get_visits_with_anomalous_durations(Whole(200)) :
                            LET row == get_visits_with_anomalous_durations(Whole(200))[k]
                            IN  /\ row.id = v
                                /\ row.avg_duration = Whole(120)
                                /\ row.percent_of_avg = Whole(250)

\* a client with visits of 60, 60, 60 and 300 minutes, whose 300-minute visit
\* is returned for t = 200
C6_Witness ==
    \E c \in DOMAIN clients :
        /\ Has60x3And300(c)
        /\ \E v \in VisitsOf(c) : v \in Flagged(Whole(200)) /\ v \notin Flagged(Whole(300))

\* C7: whatever visits were added, updated and deleted, no visit of a client
\* that now has fewer than 2 visits is returned, for every threshold (t = 0 and
\* t <= 100 included).
C7_NoSingleVisitAnomaly ==
    \A t \in Thresholds : \A v \in Flagged(t) :
        Cardinality(VisitsOf(visits[v].client_id)) >= 2

\* after a deletion, one client is down to a single 300-minute visit while the
\* visits of another client are returned for t = 0
C7_Witness ==
    /\ sqlite_sequence.visits > Cardinality(DOMAIN visits)
    /\ \E c \in DOMAIN clients :
          /\ Cardinality(VisitsOf(c)) = 1
          /\ \A v \in VisitsOf(c) : visits[v].duration_minutes = Whole(300)
    /\ Flagged(Zero) # {}

\* C8: the returned list is in non-increasing order of percent_of_avg, and each
\* row carries its client's mean duration as avg_duration, its client's visit
\* count as total_visits and percent_of_avg = duration_minutes * 100 / avg_duration.
C8_SortedWithComparisonData ==
    \A t \in Thresholds :
        LET r == get_visits_with_anomalous_durations(t)
        IN  /\ \A k \in 1..(Len(r) - 1) : RGe(r[k].percent_of_avg, r[k + 1].percent_of_avg)
            /\ \A k \in DOMAIN r :
                  /\ r[k].id \in DOMAIN visits
                  /\ r[k].duration_minutes = visits[r[k].id].duration_minutes
                  /\ r[k].client_id = visits[r[k].id].client_id
                  /\ r[k].total_visits = Cardinality(VisitsOf(r[k].client_id))
                  /\ RMul(r[k].avg_duration, Whole(r[k].total_visits))
                         = DurationSum(r[k].client_id)
                  /\ RMul(r[k].percent_of_avg, r[k].avg_duration)
                         = RMul(r[k].duration_minutes, Whole(100))

\* a returned list whose later rows are of an earlier visit and of a smaller
\* percent_of_avg than its first row
C8_Witness ==
    LET r == get_visits_with_anomalous_durations(Zero)
    IN  /\ Len(r) >= 3
        /\ RGt(r[1].percent_of_avg, r[2].percent_of_avg)
        /\ r[1].id > r[2].id

\* C9: the analytics calls are read-only: a step in which
\* get_visits_with_anomalous_durations, get_client_statistics or
\* get_all_client_statistics returns leaves every table as it was (no visit's
\* duration_minutes or needs_review changes).
C9_QueriesReadOnly ==
    [][(returned'.call # returned.call \/ returned'.value # returned.value)
           => UNCHANGED tables]_vars

\* the detector has returned a visit that is still flagged needs_review = 1 and
\* still has the duration the returned row shows
C9_Witness ==
    /\ returned.call = "get_visits_with_anomalous_durations"
    /\ \E k \in DOMAIN returned.value :
          /\ returned.value[k].id \in DOMAIN visits
          /\ visits[returned.value[k].id].needs_review = 1
          /\ returned.value[k].needs_review = 1
          /\ visits[returned.value[k].id].duration_minutes = returned.value[k].duration_minutes

\* C10: for a client id that is not in the store (never added, or removed by
\* delete_client), get_client_statistics returns the empty result and
\* get_all_client_statistics holds no record for it.
C10_MissingClientEmpty ==
    \A c \in 1..(MaxClients + 1) :
        c \notin DOMAIN clients =>
            /\ get_client_statistics(c) = EmptyDict
            /\ \A a \in BOOLEAN : \A r \in BatchRecords(a) : r.client_id # c

\* one client was removed by delete_client after it had a visit, another id was
\* never given, and a remaining client still has statistics
C10_Witness ==
    /\ \E c \in 1..MaxClients : c <= sqlite_sequence.clients /\ c \notin DOMAIN clients
    /\ \E c \in 1..(MaxClients + 1) : c > sqlite_sequence.clients
    /\ sqlite_sequence.visits > 0
    /\ BatchRecords(TRUE) # {}

\* every statistics record, single or batch, is computed with rate r
RecordsUseRate(r) ==
    \A c \in DOMAIN clients :
        \A s \in {get_client_statistics(c)} \cup {x \in BatchRecords(TRUE) : x.client_id = c} :
            /\ s.hourly_rate = round(r, 2)
            /\ s.total_labor_cost = round(LaborCost(DurationSum(c), r), 2)

\* C11: the rate is 25.00 until it is set; set_hourly_rate(r) makes it r and
\* every other step leaves it as it was; and in every state the statistics
\* records, single and batch, are computed with that rate (none with an earlier
\* one).
C11_RateIsMostRecentlySet ==
    /\ get_hourly_rate = Whole(25)
    /\ [][/\ \A r \in RateInputs :
               (set_hourly_rate(r) /\ settings' # settings) => get_hourly_rate' = r
          /\ (\A r \in RateInputs : ~set_hourly_rate(r)) => get_hourly_rate' = get_hourly_rate
         ]_vars
    /\ []RecordsUseRate(get_hourly_rate)

\* a statistics call has returned a record computed at 30.00 an hour, the rate
\* now set, for a client with two visits
C11_Witness ==
    /\ get_hourly_rate = Whole(30)
    /\ returned.call = "get_all_client_statistics"
    /\ \E k \in DOMAIN returned.value :
          /\ returned.value[k].hourly_rate = Whole(30)
          /\ returned.value[k].visit_count = 2
          /\ returned.value[k].total_labor_cost
                 = round(LaborCost(DurationSum(returned.value[k].client_id), Whole(30)), 2)
          /\ RGt(returned.value[k].total_labor_cost, Zero)

\* the statistics records of client c: the single one and the batch one
RecordsOf(c) ==
    {get_client_statistics(c)} \cup {x \in BatchRecords(TRUE) : x.client_id = c}

\* C12: total_labor_cost is the sum of the durations of all the client's visits,
\* in hours, times the crew of 2, times the hourly rate (rounded to cents); one
\* visit of 120 minutes at 25.00 gives 100.00.
C12_TotalLaborCost ==
    \A c \in DOMAIN clients : \A s \in RecordsOf(c) :
        /\ s.total_labor_cost
               = round(RDiv(RMul(RMul(DurationSum(c), Whole(2)), get_hourly_rate),
                            Whole(60)), 2)
        /\ (/\ Cardinality(VisitsOf(c)) = 1
            /\ DurationSum(c) = Whole(120)
            /\ get_hourly_rate = Whole(25)) => s.total_labor_cost = Whole(100)

\* a client with exactly one visit, of 120 minutes, at a rate of 25.00, beside
\* a client with several visits
C12_Witness ==
    /\ get_hourly_rate = Whole(25)
    /\ \E c \in DOMAIN clients :
          /\ Cardinality(VisitsOf(c)) = 1
          /\ DurationSum(c) = Whole(120)
          /\ get_client_statistics(c).total_labor_cost = Whole(100)
    /\ \E c \in DOMAIN clients : Cardinality(VisitsOf(c)) = 2

\* the mean duration of client c's visits, 0 without visits
MeanDuration(c) ==
    IF VisitsOf(c) = {} THEN Zero
    ELSE RDiv(DurationSum(c), Whole(Cardinality(VisitsOf(c))))

\* C13: projected_yearly_labor_cost is (mean duration / 60) * 2 * hourly_rate * 52
\* (rounded to cents) and depends on the visits only through their mean: two
\* clients with the same mean duration get the same value whatever their visit
\* counts; one 60-minute visit at 25.00 with nothing configured gives
\* est_yearly_cost 2600 and proposed_monthly_rate 216.67.
C13_ProjectionFromMean ==
    /\ \A c \in DOMAIN clients : \A s \in RecordsOf(c) :
          /\ s.projected_yearly_labor_cost
                 = round(RDiv(RMul(RMul(RMul(MeanDuration(c), Whole(2)), get_hourly_rate),
                                   Whole(52)), Whole(60)), 2)
          /\ (/\ Cardinality(VisitsOf(c)) = 1
              /\ DurationSum(c) = Whole(60)
              /\ get_hourly_rate = Whole(25)
              /\ ConfiguredCost(c, "material") = Zero
              /\ ConfiguredCost(c, "service") = Zero)
                 => /\ s.est_yearly_cost = Whole(2600)
                    /\ s.proposed_monthly_rate = Rat(21667, 100)
    /\ \A c, d \in DOMAIN clients : \A s \in RecordsOf(c), t \in RecordsOf(d) :
          MeanDuration(c) = MeanDuration(d)
              => s.projected_yearly_labor_cost = t.projected_yearly_labor_cost

\* one client with a single 60-minute visit and another with two visits of the
\* same mean and twice the total, both projected at 2600 at a rate of 25.00
C13_Witness ==
    /\ get_hourly_rate = Whole(25)
    /\ \E c, d \in DOMAIN clients :
          /\ Cardinality(VisitsOf(c)) = 1
          /\ Cardinality(VisitsOf(d)) = 2
          /\ MeanDuration(c) = Whole(60)
          /\ MeanDuration(d) = Whole(60)
          /\ get_client_statistics(c).projected_yearly_labor_cost = Whole(2600)
          /\ get_client_statistics(d).projected_yearly_labor_cost = Whole(2600)
          /\ get_client_statistics(c).proposed_monthly_rate = Rat(21667, 100)

\* the enabled client_materials rows of client c
EnabledRows(c) ==
    {cm \in DOMAIN client_materials :
        client_materials[cm].client_id = c /\ client_materials[cm].is_enabled = 1}

\* effective_cost * multiplier of row cm: custom_cost if set, else default_cost
RowCost(cm) ==
    LET r == client_materials[cm]
    IN  RMul(IF r.custom_cost = None THEN materials[r.material_id].default_cost
             ELSE r.custom_cost, r.multiplier)

\* the enabled rows of client c whose linked material is of type t, and their sum
RowsOfType(c, t) ==
    {cm \in EnabledRows(c) : materials[client_materials[cm].material_id].material_type = t}
ConfiguredOfType(c, t) == RSum([cm \in RowsOfType(c, t) |-> RowCost(cm)], RowsOfType(c, t))

\* the yearly estimate of client c from its visits' mean duration, the rate and
\* its configured rows: no logged visit material enters it
EstimateFromConfigured(c) ==
    RAdd(RDiv(RMul(RMul(RMul(MeanDuration(c), Whole(2)), get_hourly_rate), Whole(52)),
              Whole(60)),
         RAdd(ConfiguredOfType(c, "material"), ConfiguredOfType(c, "service")))

\* C14: est_yearly_cost, proposed_monthly_rate, monthly_profit_loss and
\* is_profitable (and the labor and configured fields) are computed from the
\* visits' durations, the rate, the monthly charge and the configured rows alone,
\* and add_visit_material and delete_visit_material change none of these, so
\* they leave the four fields as they were.
C14_VisitMaterialsFrame ==
    /\ [](\A c \in DOMAIN clients : \A s \in RecordsOf(c) :
            LET est == EstimateFromConfigured(c)
                monthly == RDiv(est, Whole(12))
            IN  /\ s.est_yearly_cost = round(est, 2)
                /\ s.proposed_monthly_rate = round(monthly, 2)
                /\ s.monthly_profit_loss = round(RSub(clients[c].monthly_charge, monthly), 2)
                /\ s.is_profitable = RGe(clients[c].monthly_charge, monthly)
                /\ s.configured_materials_cost_yearly
                       = round(ConfiguredOfType(c, "material"), 2)
                /\ s.configured_services_cost_yearly
                       = round(ConfiguredOfType(c, "service"), 2)
                /\ s.visit_count = Cardinality(VisitsOf(c)))
    /\ [][/\ \A m \in 1..MaxCatalogMaterials, q \in Quantities, k \in CostsAtTime :
               add_visit_material(1, m, q, k)
                   => UNCHANGED <<clients, materials, client_materials, visits, settings>>
          /\ \A vm \in DOMAIN visit_materials :
               delete_visit_material(vm)
                   => UNCHANGED <<clients, materials, client_materials, visits, settings>>
         ]_vars

\* a visit material has been logged and another deleted; the client's totals
\* hold the logged cost while its estimate is the configured one
C14_Witness ==
    /\ sqlite_sequence.visit_materials > Cardinality(DOMAIN visit_materials)
    /\ \E c \in DOMAIN clients :
          LET s == get_client_statistics(c)
          IN  /\ RGt(VisitCost(c, "material"), Zero)
              /\ RGt(ConfiguredOfType(c, "material"), Zero)
              /\ RGt(s.total_material_cost, s.configured_materials_cost_yearly)
              /\ s.est_yearly_cost = round(EstimateFromConfigured(c), 2)
              /\ RGt(s.avg_cost_per_visit, s.total_labor_cost)

LoggedOfType(c, t) ==
    LET rows == {vm \in DOMAIN visit_materials :
                    /\ visit_materials[vm].visit_id \in VisitsOf(c)
                    /\ materials[visit_materials[vm].material_id].material_type = t}
    IN  RSum([vm \in rows |-> RMul(visit_materials[vm].quantity,
                                   visit_materials[vm].cost_at_time)], rows)

\* C16: a client's visit-logged material and service sums are the sums of
\* quantity * cost_at_time of its visit materials, whatever the catalog's
\* default_cost and the client's custom_cost are now; update_material of a
\* default_cost and add_client_material change no visit material, so they
\* leave both sums as they were.
C16_VisitCostsAreSnapshots ==
    /\ [](\A c \in DOMAIN clients :
            /\ VisitCost(c, "material") = LoggedOfType(c, "material")
            /\ VisitCost(c, "service") = LoggedOfType(c, "service")
            /\ \A s \in RecordsOf(c) :
                  /\ s.total_material_cost
                         = round(RAdd(ConfiguredOfType(c, "material"),
                                      LoggedOfType(c, "material")), 2)
                  /\ s.total_service_cost
                         = round(RAdd(ConfiguredOfType(c, "service"),
                                      LoggedOfType(c, "service")), 2))
    /\ [][/\ \A m \in DOMAIN materials, d \in Costs :
               update_material(m, [default_cost |-> d]) => UNCHANGED <<visit_materials, visits>>
          /\ \A m \in 1..MaxCatalogMaterials, k \in CustomCosts, x \in CatalogMultipliers :
               add_client_material(1, m, k, x) => UNCHANGED <<visit_materials, visits>>
         ]_vars

\* a material logged on a visit at 7.50 now costs 0.09 in the catalog and 10
\* for the client, whose configuration row has been replaced
C16_Witness ==
    \E vm \in DOMAIN visit_materials : \E cm \in DOMAIN client_materials :
        /\ client_materials[cm].material_id = visit_materials[vm].material_id
        /\ client_materials[cm].custom_cost = Whole(10)
        /\ cm > 1
        /\ materials[visit_materials[vm].material_id].default_cost = Rat(9, 100)
        /\ visit_materials[vm].cost_at_time = Rat(15, 2)
        /\ materials[visit_materials[vm].material_id].material_type = "service"
        /\ get_client_statistics(1).total_service_cost = Whole(45)

\* C17: get_all_client_statistics returns exactly one record for each selected
\* client (active ones for active_only, inactive ones otherwise), whether or not
\* the client has visits or materials, none twice, in ascending order of name.
C17_OneRecordPerClientByName ==
    \A a \in BOOLEAN :
        LET r == get_all_client_statistics(a)
            wanted == {c \in DOMAIN clients : clients[c].is_active = 1 <=> a}
        IN  /\ {r[k].client_id : k \in DOMAIN r} = wanted
            /\ Len(r) = Cardinality(wanted)
            /\ \A j, k \in DOMAIN r : j # k => r[j].client_id # r[k].client_id
            /\ \A k \in DOMAIN r : r[k].client_name = clients[r[k].client_id].name
            /\ \A k \in 1..(Len(r) - 1) : r[k].client_name <= r[k + 1].client_name

\* two active clients, the later-added one first by name; one has a visit, the
\* other has neither visits nor materials
C17_Witness ==
    LET r == get_all_client_statistics(TRUE)
    IN  /\ Len(r) = 2
        /\ r[1].client_id = 2
        /\ r[1].client_name < r[2].client_name
        /\ r[1].visit_count = 0
        /\ r[2].visit_count = 1
        /\ EnabledRows(r[1].client_id) = {}

\* the exact, unrounded value of each monetary and duration field of client c's
\* statistics, from the store
ExactFields(c) ==
    LET n == Cardinality(VisitsOf(c))
        d == {visits[v].duration_minutes : v \in VisitsOf(c)}
        material == RAdd(ConfiguredOfType(c, "material"), LoggedOfType(c, "material"))
        service == RAdd(ConfiguredOfType(c, "service"), LoggedOfType(c, "service"))
        labor == RDiv(RMul(RMul(DurationSum(c), Whole(2)), get_hourly_rate), Whole(60))
        projected == RDiv(RMul(RMul(RMul(MeanDuration(c), Whole(2)), get_hourly_rate),
                               Whole(52)), Whole(60))
        monthly == RDiv(EstimateFromConfigured(c), Whole(12))
    IN  [total_material_cost |-> material,
         total_service_cost |-> service,
         total_materials_services_cost |-> RAdd(material, service),
         configured_materials_cost_yearly |-> ConfiguredOfType(c, "material"),
         configured_services_cost_yearly |-> ConfiguredOfType(c, "service"),
         projected_yearly_labor_cost |-> projected,
         total_labor_cost |-> labor,
         avg_cost_per_visit |->
             IF n > 0 THEN RDiv(RAdd(labor, RAdd(material, service)), Whole(n)) ELSE Zero,
         est_yearly_cost |-> EstimateFromConfigured(c),
         proposed_monthly_rate |-> monthly,
         actual_monthly_charge |-> clients[c].monthly_charge,
         monthly_profit_loss |-> RSub(clients[c].monthly_charge, monthly),
         hourly_rate |-> get_hourly_rate,
         avg_time_per_visit |-> MeanDuration(c),
         min_time_per_visit |-> IF n = 0 THEN Zero ELSE RMin(d),
         max_time_per_visit |-> IF n = 0 THEN Zero ELSE RMax(d)]

DurationFields == {"avg_time_per_visit", "min_time_per_visit", "max_time_per_visit"}

\* C18: in every statistics record, single or batch, every monetary field is
\* its exact value rounded to 2 decimals and every duration field its exact
\* value rounded to 1 decimal, the exact value being computed from unrounded
\* intermediate values.
C18_RoundedOnceFromExact ==
    \A c \in DOMAIN clients :
        LET exact == ExactFields(c)
        IN  \A s \in RecordsOf(c) : \A f \in DOMAIN exact :
                s[f] = round(exact[f], IF f \in DurationFields THEN 1 ELSE 2)

\* a and b differ by at most 0.01
WithinACent(a, b) == RLe(RSub(a, b), Rat(1, 100)) /\ RLe(RSub(b, a), Rat(1, 100))

\* C19 as stated: in every statistics record, total_materials_services_cost is
\* the sum of the record's total_material_cost and total_service_cost, and
\* monthly_profit_loss is the record's actual_monthly_charge minus its
\* proposed_monthly_rate.
C19_DerivedFieldsAgree_AsStated ==
    \A c \in DOMAIN clients : \A s \in RecordsOf(c) :
        /\ s.total_materials_services_cost = RAdd(s.total_material_cost, s.total_service_cost)
        /\ s.monthly_profit_loss = RSub(s.actual_monthly_charge, s.proposed_monthly_rate)

\* C19, amended: each derived field is rounded from the unrounded values it is
\* derived from, so it agrees with the record's own rounded fields to within
\* 0.01: total_materials_services_cost with total_material_cost +
\* total_service_cost, monthly_profit_loss with actual_monthly_charge -
\* proposed_monthly_rate.
C19_DerivedFieldsWithinACent ==
    \A c \in DOMAIN clients :
        LET exact == ExactFields(c)
        IN  \A s \in RecordsOf(c) :
                /\ s.total_materials_services_cost
                       = round(exact.total_materials_services_cost, 2)
                /\ WithinACent(s.total_materials_services_cost,
                               RAdd(s.total_material_cost, s.total_service_cost))
                /\ s.monthly_profit_loss = round(exact.monthly_profit_loss, 2)
                /\ WithinACent(s.monthly_profit_loss,
                               RSub(s.actual_monthly_charge, s.proposed_monthly_rate))

\* a record whose material and service totals both round to 0.00 while their
\* combined total rounds to 0.01
C19_Witness ==
    \E c \in DOMAIN clients :
        LET s == get_client_statistics(c)
        IN  /\ s.total_material_cost = Zero
            /\ s.total_service_cost = Zero
            /\ s.total_materials_services_cost = Rat(1, 100)
            /\ RGt(ConfiguredOfType(c, "material"), Zero)
            /\ RGt(ConfiguredOfType(c, "service"), Zero)

\* C20: after any sequence of visit entries (manual save_visit, scanned-image
\* import, Excel import, save_and_mark_reviewed) every stored visit has
\* duration_minutes > 0; an entry whose end time equals its start time stores
\* nothing.
C20_VisitDurationPositive ==
    \A v \in DOMAIN visits : RGt(visits[v].duration_minutes, Zero)

\* the client has a visit among those get_visits_with_anomalous_durations(t) returns
ReturnedFor(c, t) == VisitsOf(c) \cap Flagged(t) # {}

\* C21: with durations of 0 and more, a client with at least 2 visits has no
\* visit returned for any threshold exactly when the mean of its durations is
\* 0, which is when all its durations are 0; the call then still returns a
\* list (of the other clients' visits), not an error.
C21_ZeroMeanSkipped ==
    /\ \A t \in Thresholds :
          LET r == get_visits_with_anomalous_durations(t) IN DOMAIN r = 1..Len(r)
    /\ \A c \in DOMAIN clients :
          Cardinality(VisitsOf(c)) >= 2 =>
              /\ (\A t \in Thresholds : ~ReturnedFor(c, t)) <=> DurationSum(c) = Zero
              /\ DurationSum(c) = Zero <=>
                     \A v \in VisitsOf(c) : visits[v].duration_minutes = Zero

\* one client has two visits of 0 minutes and none is returned for t = 0, while
\* the visits of another client are
C21_Witness ==
    \E c, o \in DOMAIN clients :
        /\ Cardinality(VisitsOf(c)) >= 2
        /\ \A v \in VisitsOf(c) : visits[v].duration_minutes = Zero
        /\ ~ReturnedFor(c, Zero)
        /\ ReturnedFor(o, Zero)

\* The two queries as functions of a visits table vs and a clients table cl,
\* to compare the results over two stores.

\* per client with at least 2 visits in vs: the mean duration and the count
ClientStatsOver(vs) ==
    LET of(c) == {v \in DOMAIN vs : vs[v].client_id = c}
        keys  == {c \in {vs[v].client_id : v \in DOMAIN vs} : Cardinality(of(c)) >= 2}
    IN  [c \in keys |->
           [avg_duration |-> RDiv(RSum([v \in of(c) |-> vs[v].duration_minutes], of(c)),
                                  Whole(Cardinality(of(c)))),
            total_visits |-> Cardinality(of(c))]]

\* what get_visits_with_anomalous_durations(t) returns over vs and cl
AnomaliesOver(vs, cl, t) ==
    LET cs == ClientStatsOver(vs)
        percent(v) == RDiv(RMul(vs[v].duration_minutes, Whole(100)),
                           cs[vs[v].client_id].avg_duration)
        hit == {v \in DOMAIN vs :
                   /\ vs[v].client_id \in DOMAIN cl
                   /\ vs[v].client_id \in DOMAIN cs
                   /\ RGt(cs[vs[v].client_id].avg_duration, Zero)
                   /\ RGe(percent(v), t)}
    IN  OrderByPercentDesc(
            {[id |-> v,
              client_id |-> vs[v].client_id,
              visit_date |-> vs[v].visit_date,
              duration_minutes |-> vs[v].duration_minutes,
              needs_review |-> vs[v].needs_review,
              client_name |-> cl[vs[v].client_id].name,
              avg_duration |-> cs[vs[v].client_id].avg_duration,
              total_visits |-> cs[vs[v].client_id].total_visits,
              percent_of_avg |-> percent(v)] : v \in hit})

\* what get_visits_needing_review returns over vs and cl
ReviewListOver(vs, cl) ==
    OrderByDateDesc(
        {[id |-> v,
          client_id |-> vs[v].client_id,
          visit_date |-> vs[v].visit_date,
          duration_minutes |-> vs[v].duration_minutes,
          needs_review |-> vs[v].needs_review,
          client_name |-> cl[vs[v].client_id].name]
         : v \in {w \in DOMAIN vs : vs[w].client_id \in DOMAIN cl /\ vs[w].needs_review = 1}})

\* the visits tables that differ from the store's only in needs_review values
FlagTwins ==
    {[v \in DOMAIN visits |-> [visits[v] EXCEPT !.needs_review = f[v]]] :
        f \in [DOMAIN visits -> ReviewFlags]}

\* the visits tables that differ from the store's only in duration_minutes values
DurationTwins ==
    {[v \in DOMAIN visits |-> [visits[v] EXCEPT !.duration_minutes = f[v]]] :
        f \in [DOMAIN visits -> ReviewDurations]}

\* a result list with one column of every row left out
WithoutColumn(r, column) ==
    [k \in DOMAIN r |-> [f \in DOMAIN r[k] \ {column} |-> r[k][f]]]

\* C22 as stated: every store that differs from this one only in needs_review
\* values gives the same get_visits_with_anomalous_durations result, and every
\* store that differs only in durations gives the same visits from
\* get_visits_needing_review.
C22_ReviewFlagIndependent_AsStated ==
    /\ \A t \in Thresholds :
          /\ get_visits_with_anomalous_durations(t) = AnomaliesOver(visits, clients, t)
          /\ \A tw \in FlagTwins :
                AnomaliesOver(tw, clients, t) = AnomaliesOver(visits, clients, t)
    /\ get_visits_needing_review = ReviewListOver(visits, clients)
    /\ \A tw \in DurationTwins :
          WithoutColumn(ReviewListOver(tw, clients), "duration_minutes")
              = WithoutColumn(ReviewListOver(visits, clients), "duration_minutes")

\* C22: every store that differs from this one only in needs_review values
\* gives the same visits in the same order with the same comparison data from
\* get_visits_with_anomalous_durations, each row differing at most in the
\* needs_review column it copies from its visit; every store that differs only
\* in durations gives the same visits in the same order from
\* get_visits_needing_review, each row differing at most in the
\* duration_minutes column it copies.  A step that changes a visit's
\* needs_review (mark_visit_reviewed, update_visit(needs_review=...)) changes
\* nothing else, so it adds and removes no anomaly.
C22_ReviewFlagIndependent ==
    /\ [](/\ \A t \in Thresholds :
                /\ get_visits_with_anomalous_durations(t) = AnomaliesOver(visits, clients, t)
                /\ \A tw \in FlagTwins :
                      WithoutColumn(AnomaliesOver(tw, clients, t), "needs_review")
                          = WithoutColumn(AnomaliesOver(visits, clients, t), "needs_review")
          /\ get_visits_needing_review = ReviewListOver(visits, clients)
          /\ \A tw \in DurationTwins :
                WithoutColumn(ReviewListOver(tw, clients), "duration_minutes")
                    = WithoutColumn(ReviewListOver(visits, clients), "duration_minutes"))
    /\ [][(\E v \in DOMAIN visits \cap DOMAIN visits' :
               visits'[v].needs_review # visits[v].needs_review)
             => visits' \in FlagTwins /\ clients' = clients]_vars

\* the 300-minute visit among 60, 60, 300 is returned for t = 200 with its flag
\* cleared by hand, while a 60-minute visit is on the review list
C22_Witness ==
    /\ sqlite_sequence.visits = 3
    /\ \E v \in Flagged(Whole(200)) :
          visits[v].needs_review = 0 /\ visits[v].duration_minutes = Whole(300)
    /\ \E k \in DOMAIN get_visits_needing_review :
          get_visits_needing_review[k].duration_minutes = Whole(60)

\* C23: once ignore_anomaly(visit_id) has run, refresh included, the visit is
\* not on the Unusual Durations list.
C23_DismissedAnomalyGone ==
    (handler.name = "ignore_anomaly" /\ Idle) => handler.arg \notin ShownAnomalies

\* C24: get_all_client_statistics(active_only=False) has a record for every
\* client, active or not, the clients of get_all_clients(active_only=False);
\* get_all_client_statistics(active_only=True) has records for exactly the
\* clients with is_active = 1.
C24_ActiveOnlyFalseIsAllClients ==
    /\ {r.client_id : r \in BatchRecords(FALSE)} = Range(get_all_clients(FALSE))
    /\ Range(get_all_clients(FALSE)) = DOMAIN clients
    /\ {r.client_id : r \in BatchRecords(TRUE)} = {c \in DOMAIN clients : clients[c].is_active = 1}

\* the clients table with the is_active flag of client c set to flag
WithActiveFlag(cl, c, flag) ==
    [i \in DOMAIN cl |-> IF i = c THEN [cl[i] EXCEPT !.is_active = flag] ELSE cl[i]]

\* C25: a step that turns a client's is_active from 1 to 0 (deactivate_client)
\* or from 0 to 1 (activate_client) changes that flag and nothing else: every
\* other column of the client, every other client and every other table stay.
\* So for an active client c, setting the flag to 0 and then to 1 gives the
\* store back, and with it the records of get_all_client_statistics(True).
C25_SoftDeleteRoundTrip ==
    /\ [](\A c \in DOMAIN clients :
             clients[c].is_active = 1 =>
                 WithActiveFlag(WithActiveFlag(clients, c, 0), c, 1) = clients)
    /\ [][\A c \in DOMAIN clients \cap DOMAIN clients' :
             clients'[c].is_active # clients[c].is_active =>
                 /\ clients' = WithActiveFlag(clients, c, clients'[c].is_active)
                 /\ UNCHANGED <<materials, client_materials, visits, visit_materials,
                                settings, sqlite_sequence>>]_vars

\* a client that has a charge, a visit and a configured material is inactive:
\* it was deactivated with all of them kept, and has no record in the
\* statistics of the active clients
C25_Witness ==
    \E c \in DOMAIN clients :
        /\ clients[c].is_active = 0
        /\ clients[c].monthly_charge # Zero
        /\ VisitsOf(c) # {}
        /\ \E cm \in DOMAIN client_materials : client_materials[cm].client_id = c
        /\ \A r \in BatchRecords(TRUE) : r.client_id # c

\* the ids that were given to clients and are no longer in the table
DeletedClients == (1..sqlite_sequence.clients) \ DOMAIN clients

\* C26: every visit is of an existing client, every visit material of an
\* existing visit and an existing material, every client material of an
\* existing client and an existing material; a deleted client has no visit and
\* no client material left, its id is not given again, and no statistics
\* record and no anomaly row is of a deleted client.
C26_ReferentialIntegrity ==
    /\ \A v \in DOMAIN visits : visits[v].client_id \in DOMAIN clients
    /\ \A vm \in DOMAIN visit_materials :
          /\ visit_materials[vm].visit_id \in DOMAIN visits
          /\ visit_materials[vm].material_id \in DOMAIN materials
    /\ \A cm \in DOMAIN client_materials :
          /\ client_materials[cm].client_id \in DOMAIN clients
          /\ client_materials[cm].material_id \in DOMAIN materials
    /\ DOMAIN clients \subseteq 1..sqlite_sequence.clients
    /\ \A c \in DeletedClients :
          /\ VisitsOf(c) = {}
          /\ \A cm \in DOMAIN client_materials : client_materials[cm].client_id # c
          /\ get_client_statistics(c) = EmptyDict
          /\ \A a \in BOOLEAN : \A r \in BatchRecords(a) : r.client_id # c
          /\ \A t \in Thresholds :
                \A k \in DOMAIN get_visits_with_anomalous_durations(t) :
                    get_visits_with_anomalous_durations(t)[k].client_id # c

\* a client was deleted after it had a visit, which is gone, while the other
\* client and its visit are still in the statistics
C26_Witness ==
    /\ DeletedClients # {}
    /\ sqlite_sequence.visits = 2
    /\ Cardinality(DOMAIN visits) = 1
    /\ \E r \in BatchRecords(TRUE) : r.visit_count = 1

\* the file paths handle_mobile_upload was given, one per request that has
\* made the call
HandedOver ==
    {t \in DOMAIN mobile_requests : mobile_requests[t].pc \in {"after", "done"}}

\* how many times path p is in the list s
CountIn(s, p) == Cardinality({k \in DOMAIN s : s[k] = p})

\* how many times path p was handed to the scan pipeline
RECURSIVE TimesProcessed(_, _)
TimesProcessed(pipeline, p) ==
    IF pipeline = <<>> THEN 0
    ELSE CountIn(Head(pipeline), p) + TimesProcessed(Tail(pipeline), p)

\* C27: a file path is never given to the scan pipeline more often than it was
\* handed to handle_mobile_upload, and whenever process_pending_mobile_uploads
\* is not between its copy() and its clear(), a path handed over n times is n
\* times in the queue or in what the pipeline was given: none is lost.
C27_UploadsProcessedExactlyOnce ==
    \A t \in HandedOver :
        LET p == mobile_requests[t].filepath
            n == Cardinality({u \in HandedOver : mobile_requests[u].filepath = p})
        IN  /\ TimesProcessed(scan_pipeline, p) <= n
            /\ uploads = <<>> =>
                   CountIn(pending_mobile_uploads, p) + TimesProcessed(scan_pipeline, p) = n

\* the uploads UploadServer accepted have file names that differ pairwise
UploadNamesDistinct ==
    \A t, u \in DOMAIN upload_requests :
        t # u => upload_requests[t].filename # upload_requests[u].filename

\* the uploads MobileServer accepted have file paths that differ pairwise, and
\* the image of each is the one stored under its path
MobilePathsDistinct ==
    /\ \A t, u \in DOMAIN mobile_requests :
           t # u => mobile_requests[t].filepath # mobile_requests[u].filepath
    /\ \A t \in DOMAIN mobile_requests : temp_dir[mobile_requests[t].filepath] = t

\* C28: every accepted upload has a file name distinct from that of every
\* other accepted upload of the same server, also when two uploads are handled
\* concurrently or within one second, so that no image overwrites another.
C28_DistinctFileNames == UploadNamesDistinct /\ MobilePathsDistinct

\* all the visits of client c have a duration above 0
AllPositive(c) == \A v \in VisitsOf(c) : RGt(visits[v].duration_minutes, Zero)

\* C29: at the To-Do list's threshold of 300 percent, no visit of a client
\* that has fewer than 4 visits, all of a duration above 0, is returned by
\* get_visits_with_anomalous_durations; and in every group of n visits the
\* query computes a mean for, all of a duration above 0, each visit is below
\* n * 100 percent of that mean.
C29_FewVisitsNeverAnomalous ==
    \A c \in DOMAIN clients :
        AllPositive(c) =>
            /\ Cardinality(VisitsOf(c)) < 4 => ~ReturnedFor(c, Whole(300))
            /\ c \in DOMAIN client_stats =>
                   \A v \in VisitsOf(c) :
                       RLt(PercentOfAvg(visits[v].duration_minutes, client_stats[c].avg_duration),
                           Whole(client_stats[c].total_visits * 100))

\* a client has three visits of 60, 60 and 600 minutes, the long one at 250
\* percent of the mean, and none of them is returned at 300 percent
C29_Witness ==
    \E c \in DOMAIN clients :
        /\ Cardinality(VisitsOf(c)) = 3
        /\ AllPositive(c)
        /\ \E v \in VisitsOf(c) :
               PercentOfAvg(visits[v].duration_minutes, client_stats[c].avg_duration) = Whole(250)
        /\ ~ReturnedFor(c, Whole(300))

\* the handlers that change data the statistics are computed from
StatisticsHandlers ==
    {"save_visit", "delete_visit", "save_new_client", "save_client_changes",
     "save_all_material_changes", "delete_material", "save_settings"}

\* C30: when a handler that changes data feeding the statistics (a visit added
\* or deleted, a client saved, save_all_material_changes, delete_material, the
\* hourly rate changed) has run to its end, self.all_client_stats, which
\* on_dashboard_filter_change reads, is what
\* get_all_client_statistics(active_only=True) returns for the store (the
\* attribute counted as the empty list while refresh_dashboard has not
\* assigned it).
C30_DashboardCacheCoherent ==
    (Idle /\ handler.name \in StatisticsHandlers) =>
        all_client_stats.stats_list = get_all_client_statistics(TRUE)

====
